---------------------------- MODULE Spec2Model ----------------------------
(***************************************************************************)
(* A model of the Concierge Analyzer core: concierge_parser.py             *)
(* (PersonaAnalyzer, ConciergeParser) and debug_analyzer.py                *)
(* (DebugAnalyzer).                                                        *)
(*                                                                         *)
(* Text.  A Python string is modelled as the sequence of its atoms, the    *)
(* string being the atoms joined by single spaces: <<"Bistrot", "Parigi">> *)
(* is "Bistrot Parigi", the blank atom "" stands for one more space        *)
(* (<<"", "Parigi">> is " Parigi") and <<>> is the empty string.  An atom  *)
(* of a debug payload may be a whole quoted literal.  The string methods   *)
(* the code calls (lower, strip, split, len, in, replace, re.findall) are  *)
(* operators on these sequences.                                           *)
(***************************************************************************)
EXTENDS Naturals, Integers, Sequences, FiniteSets, TLC

VARIABLES
    chat_text,            \* the transcript handed to parse_whatsapp_chat
    csv,                  \* the persona table handed to load_personas
    args,                 \* the arguments of a directly called pure function
    persona_analyzer,     \* ConciergeParser.persona_analyzer
    sheet_restaurants,    \* ConciergeParser.sheet_restaurants
    conversations,        \* ConciergeParser.conversations
    current_conversation, \* ConciergeParser.current_conversation
    debug_data,           \* ConciergeParser.debug_data
    da,                   \* the DebugAnalyzer instance (a record of its fields)
    uploads,              \* the upload_chat requests in flight (their locals)
    ret                   \* what the last call returned or raised

parserVars == <<persona_analyzer, sheet_restaurants, conversations,
                current_conversation, debug_data>>
inputVars == <<chat_text, csv, args>>
vars == <<chat_text, csv, args, persona_analyzer, sheet_restaurants,
          conversations, current_conversation, debug_data, da, uploads, ret>>

-----------------------------------------------------------------------------
(* Generic helpers                                                          *)

ToSet(s) == {s[i] : i \in 1..Len(s)}

Min(a, b) == IF a < b THEN a ELSE b

\* The least element of a set of numbers that is not empty.
Least(S) == CHOOSE i \in S : \A k \in S : i <= k

RECURSIVE SumSeq(_)
SumSeq(s) == IF s = <<>> THEN 0 ELSE Head(s) + SumSeq(Tail(s))

RECURSIVE Flatten(_)
Flatten(ss) == IF ss = <<>> THEN <<>> ELSE Head(ss) \o Flatten(Tail(ss))

\* All sequences over S of length at most n.
SeqsUpTo(S, n) == UNION {[1..k -> S] : k \in 0..n}

\* Python's None, and the marker of a key a dict does not hold.
None == [t |-> "None"]
Absent == [t |-> "absent"]

-----------------------------------------------------------------------------
(* Strings                                                                  *)

NL == "\n"

\* str.lower() of one atom: the capitalised atoms of the vocabulary.
LowerTable ==
    [Parigi |-> "parigi", Bistrot |-> "bistrot", The |-> "the",
     Bar |-> "bar", Osteria |-> "osteria", Francescana |-> "francescana",
     Restaurant |-> "restaurant", Il |-> "il", Ristorante |-> "ristorante",
     Trattoria |-> "trattoria", Bella |-> "bella", Find |-> "find",
     Italian |-> "italian", Romantic |-> "romantic", Cheap |-> "cheap",
     Sushi |-> "sushi", Place |-> "place", Sheet1 |-> "sheet1",
     Summary |-> "summary"]

LowerAtom(a) == IF a \in DOMAIN LowerTable THEN LowerTable[a] ELSE a

\* str.lower()
Lower(s) == [i \in DOMAIN s |-> LowerAtom(s[i])]

IsSpace(a) == a = "" \/ a = NL

\* str.strip(): leading and trailing whitespace removed.
RECURSIVE LStrip(_)
LStrip(s) == IF s # <<>> /\ IsSpace(Head(s)) THEN LStrip(Tail(s)) ELSE s

RECURSIVE RStrip(_)
RStrip(s) ==
    IF s # <<>> /\ IsSpace(s[Len(s)]) THEN RStrip(SubSeq(s, 1, Len(s) - 1))
    ELSE s

Strip(s) == RStrip(LStrip(s))

\* str.split(): the words, whitespace runs being the separators.
Split(s) == SelectSeq(s, LAMBDA a : ~IsSpace(a))

\* len(str): the characters of the atoms and the spaces that join them.
StrLen(s) ==
    IF s = <<>> THEN 0
    ELSE SumSeq([i \in DOMAIN s |-> Len(s[i])]) + (Len(s) - 1)

\* needle in haystack, for a needle made of whole atoms.
Contains(hay, needle) ==
    \E i \in 0..(Len(hay) - Len(needle)) :
        \A k \in 1..Len(needle) : hay[i + k] = needle[k]

-----------------------------------------------------------------------------
(* PersonaAnalyzer._is_same_restaurant                                      *)

\* common_words, concierge_parser.py line 443
CommonWords ==
    {"the", "restaurant", "café", "cafe", "bar", "grill", "bistro", "kitchen"}

\* The comparison `shared >= min(...) * 0.8`, in tenths.
SharesEnough(shared, smaller) == 10 * shared >= 8 * smaller

\* A bug that asks for twice the length.
TwiceLonger(longer, shorter) == StrLen(longer) > 2 * StrLen(shorter)

\* The comparison `len(longer) > len(shorter) * 1.5`, in halves.
MuchLonger(longer, shorter) == 2 * StrLen(longer) > 3 * StrLen(shorter)

\* A bug that takes the first argument for the shorter name.
ShorterFirstArg(name1, name2) == name1

\* The roles `shorter`/`longer` given by argument position on a tie
\* (lines 457-458).
Shorter(name1, name2) == IF StrLen(name1) < StrLen(name2) THEN name1 ELSE name2
Longer(name1, name2) == IF StrLen(name1) < StrLen(name2) THEN name2 ELSE name1

\* `shorter in longer_words`: the shorter string is one element of the
\* list longer.split(), so it must be a single word.
InWords(shorter, longer_words) ==
    Len(shorter) = 1 /\ shorter[1] \in ToSet(longer_words)

\* Lines 462-469 on the two roles.
GuardRoles(shorter, longer) ==
    IF MuchLonger(longer, shorter)
       /\ InWords(shorter, Split(longer)) /\ Len(Split(longer)) > 1
    THEN FALSE
    ELSE TRUE

LengthGuard(n1, n2) == GuardRoles(Shorter(n1, n2), Longer(n1, n2))

\* Lines 451-471 on the two names and their filtered word sets.
SameWords(n1, n2, filtered_words1, filtered_words2) ==
    IF filtered_words1 # {} /\ filtered_words2 # {}
       /\ SharesEnough(Cardinality(filtered_words1 \cap filtered_words2),
                       Min(Cardinality(filtered_words1),
                           Cardinality(filtered_words2)))
    THEN LengthGuard(n1, n2)
    ELSE FALSE

\* Lines 434-471 on the lowered and trimmed names.
SameNormalized(n1, n2) ==
    IF n1 = n2 THEN TRUE
    ELSE SameWords(n1, n2, ToSet(Split(n1)) \ CommonWords,
                   ToSet(Split(n2)) \ CommonWords)

IsSameRestaurant(name1, name2) ==
    SameNormalized(Strip(Lower(name1)), Strip(Lower(name2)))

-----------------------------------------------------------------------------
(* re.findall of the bullet pattern  - ([^:]+?)(?=\s*&ndash;|\s*-|\s*\n|$)  *)

\* The en dash U+2013, written as an ASCII atom.
EnDash == "&ndash;"

\* Atoms that hold a colon: [^:] cannot cross them.
ColonAtoms == {":", "entendido:", "candidatos:", "relacionados:"}

\* What the lookahead accepts after optional whitespace.
LookaheadStops == {EnDash, "-", NL}

\* The last atom of the lazy group that starts at atom j: the first atom
\* from j on that is followed by a stop or by the end of the string; 0 when
\* a colon comes first, since the group then cannot match.
RECURSIVE GroupEnd(_, _)
GroupEnd(t, j) ==
    IF t[j] \in ColonAtoms THEN 0
    ELSE IF j = Len(t) \/ t[j + 1] \in LookaheadStops THEN j
    ELSE GroupEnd(t, j + 1)

\* The groups of the non-overlapping matches found scanning from atom i; a
\* bullet is one of `bullets` followed by a space.
RECURSIVE FindAllFrom(_, _, _)
FindAllFrom(t, i, bullets) ==
    IF i >= Len(t) THEN <<>>
    ELSE IF t[i] \in bullets
         THEN LET e == GroupEnd(t, i + 1)
              IN  IF e = 0 THEN FindAllFrom(t, i + 1, bullets)
                  ELSE <<SubSeq(t, i + 1, e)>> \o FindAllFrom(t, e + 1, bullets)
         ELSE FindAllFrom(t, i + 1, bullets)

\* restaurant_pattern of evaluate_recommendations (line 362) and of
\* extract_restaurant_recommendations (line 772).
FindRestaurants(content) == FindAllFrom(content, 1, {"-"})

-----------------------------------------------------------------------------
(* datetime.strptime(timestamp_str, '%Y-%m-%d, %I:%M:%S %p')                *)

\* A timestamp as written: its fields, and its layout: "iso12" is
\* YYYY-MM-DD, hh:mm:ss AM, "iso24" is YYYY-MM-DD hh:mm:ss (no comma, no
\* AM/PM), "other" does not start with YYYY-MM-DD.
DaysIn(y, mo) ==
    IF mo \in {4, 6, 9, 11} THEN 30
    ELSE IF mo = 2
         THEN (IF y % 4 = 0 /\ (y % 100 # 0 \/ y % 400 = 0) THEN 29 ELSE 28)
         ELSE 31

StrpTime(ts) ==
    IF /\ ts.layout = "iso12"
       /\ ts.y >= 1 /\ ts.mo \in 1..12 /\ ts.d \in 1..DaysIn(ts.y, ts.mo)
       /\ ts.h \in 1..12 /\ ts.mi \in 0..59 /\ ts.s \in 0..61
       /\ ts.ampm \in {"AM", "PM"}
    THEN [ok |-> TRUE,
          dt |-> [y |-> ts.y, mo |-> ts.mo, d |-> ts.d,
                  h |-> (ts.h % 12) + (IF ts.ampm = "PM" THEN 12 ELSE 0),
                  mi |-> ts.mi, s |-> ts.s]]
    ELSE [ok |-> FALSE, dt |-> None]

-----------------------------------------------------------------------------
(* PersonaAnalyzer                                                          *)

\* Cells of the persona table as pandas reads them.
Str(v) == [t |-> "str", v |-> v]
NaN == [t |-> "nan"]
Num(n) == [t |-> "num", v |-> n]

IsStr(c) == c.t = "str"
\* Python truth of a cell: NaN and non-zero numbers are true.
Truthy(c) == IF c.t = "str" THEN c.v # <<>>
             ELSE IF c.t = "num" THEN c.v # 0 ELSE TRUE

\* What a call gives when an exception leaves it.
Raised == [raised |-> TRUE]

\* An insertion-ordered dict as a sequence of [k, v] entries.
DictHas(d, k) == \E i \in 1..Len(d) : d[i].k = k
DictGet(d, k) == d[CHOOSE i \in 1..Len(d) : d[i].k = k].v
DictSet(d, k, v) ==
    IF DictHas(d, k)
    THEN [i \in 1..Len(d) |-> IF d[i].k = k THEN [k |-> k, v |-> v] ELSE d[i]]
    ELSE Append(d, [k |-> k, v |-> v])

EmptyAnalyzer ==
    [t |-> "PersonaAnalyzer", personas |-> <<>>, persona_inputs |-> <<>>,
     persona_recommendations |-> <<>>, raised |-> FALSE]

\* The options of a row: the cells of the three option columns that are
\* not NaN (lines 282-286), a text cell or a number as pandas read it.
RowOptions(row) == SelectSeq(row.options, LAMBDA c : c.t # "nan")

\* One iteration of the loop of load_personas_from_csv (lines 273-303) on
\* the analyzer pa.
LoadRow(pa, row) ==
    IF pa.raised THEN pa
    ELSE IF ~IsStr(row.No) \/ row.No.v = "" THEN pa
    ELSE LET options == RowOptions(row)
             persona_info == [id |-> row.No.v, description |-> row.PERSONA,
                              input |-> row.Input, recommendations |-> options]
             appended == [pa EXCEPT !.personas = Append(@, persona_info)]
         IN  IF Truthy(row.Input) /\ ~IsStr(row.Input)
             THEN \* input_text.lower() raises AttributeError
                  [appended EXCEPT !.raised = TRUE]
             ELSE [appended EXCEPT
                     !.persona_inputs =
                         IF Truthy(row.Input)
                         THEN DictSet(@, Lower(row.Input.v), row.No.v)
                         ELSE @,
                     !.persona_recommendations =
                         DictSet(@, row.No.v, options)]

RECURSIVE LoadRows(_, _)
LoadRows(pa, rows) ==
    IF rows = <<>> THEN pa ELSE LoadRows(LoadRow(pa, Head(rows)), Tail(rows))

\* PersonaAnalyzer(csv_path): the exception of a bad row is caught, the
\* rows loaded before it stay.
LoadPersonasFromCsv(rows) == LoadRows(EmptyAnalyzer, rows)

\* The one-based index of the first message of a type, 0 if none.
FirstIn(idx) == IF idx = {} THEN 0 ELSE Least(idx)

FirstOfType(conversation, type) ==
    FirstIn({i \in 1..Len(conversation) : conversation[i].type = type})

\* `len(common_words) >= 0.7 * len(input_words)`, in tenths (line 333).
FuzzyWords(input_words, request_words) ==
    10 * Cardinality(input_words \cap request_words) >= 7 * Cardinality(input_words)

FuzzyMatch(input_text, user_request_lower) ==
    FuzzyWords(ToSet(Split(Lower(input_text))), ToSet(Split(user_request_lower)))

\* The persona of the first input that matches fuzzily (lines 325-336).
FirstFuzzy(inputs, fuzzy) ==
    IF fuzzy # {} THEN Str(inputs[Least(fuzzy)].v) ELSE None

\* Lines 320-336 on the lowered and trimmed request.
MatchRequest(inputs, user_request_lower) ==
    IF DictHas(inputs, user_request_lower)
    THEN Str(DictGet(inputs, user_request_lower))
    ELSE FirstFuzzy(inputs,
             {i \in 1..Len(inputs) : FuzzyMatch(inputs[i].k, user_request_lower)})

\* Lines 314-336, r being the index of the first user_request.
MatchFirstRequest(pa, conversation, r) ==
    IF r = 0 THEN None
    ELSE IF conversation[r].content = <<>> THEN None
    ELSE MatchRequest(pa.persona_inputs, Strip(Lower(conversation[r].content)))

MatchConversationToPersona(pa, conversation) ==
    MatchFirstRequest(pa, conversation, FirstOfType(conversation, "user_request"))

\* A ratio n/d as Python computes `n / d if d else 0`.
Ratio(n, d) == IF d = 0 THEN [num |-> 0, den |-> 1] ELSE [num |-> n, den |-> d]

\* The actual recommendations: the names in the first recommendation
\* message (lines 357-365), m being its index.
StripAll(extracted) == [i \in 1..Len(extracted) |-> Strip(extracted[i])]

ActualOf(conversation, m) ==
    IF m = 0 THEN <<>> ELSE StripAll(FindRestaurants(conversation[m].content))

ActualRecommendations(conversation) ==
    ActualOf(conversation, FirstOfType(conversation, "recommendation"))

\* The zero-based position of the first actual recommendation that is the
\* same restaurant as the text cell exp, or -1 (lines 373-382).
FirstHit(hits) == IF hits = {} THEN -1 ELSE Least(hits) - 1

MatchedPosition(exp, actual) ==
    FirstHit({j \in 1..Len(actual) : IsSameRestaurant(exp.v, actual[j])})

\* A bug that takes the window one position too wide.
PositionScoreWideWindow(matched_position, i, n_expected) ==
    IF matched_position = i THEN 100
    ELSE IF matched_position >= 0 /\ matched_position <= n_expected THEN 67
    ELSE IF matched_position >= 0 THEN 33
    ELSE 0

\* position_score in hundredths (lines 389-391); i is zero-based.
PositionScore(matched_position, i, n_expected) ==
    IF matched_position = i THEN 100
    ELSE IF matched_position >= 0 /\ matched_position < n_expected THEN 67
    ELSE IF matched_position >= 0 THEN 33
    ELSE 0

\* A bug that counts an expected item found at the wrong rank as missing.
MatchesCountSameRank(position_analysis) ==
    Cardinality({i \in 1..Len(position_analysis) :
                    position_analysis[i].position = i - 1})

MatchesCount(position_analysis) ==
    Cardinality({i \in 1..Len(position_analysis) : position_analysis[i].found})

\* The entry of lines 385-392 for the expected item of zero-based rank i.
PositionEntry(exp, pos, i, n_expected) ==
    [expected |-> exp, found |-> pos >= 0, position |-> pos,
     position_score |-> PositionScore(pos, i, n_expected)]

PositionAnalysis(expected, actual) ==
    [i \in 1..Len(expected) |->
        PositionEntry(expected[i], MatchedPosition(expected[i], actual),
                      i - 1, Len(expected))]

\* matched_items (line 380): the expected items found, in order.
MatchedItems(found) == [i \in 1..Len(found) |-> found[i].expected]

\* The dict of lines 398-423.
Evaluation(expected, actual, position_analysis, matches) ==
    [raised |-> FALSE, matched |-> TRUE,
     expected_recommendations |-> expected,
     actual_recommendations |-> actual,
     matched_items |-> MatchedItems(SelectSeq(position_analysis, LAMBDA p : p.found)),
     extra_recommendations |->
         SelectSeq(actual, LAMBDA rec :
             ~\E i \in 1..Len(expected) : IsSameRestaurant(expected[i].v, rec)),
     accuracy |-> Ratio(matches, Len(expected)),
     precision |-> Ratio(matches, Len(actual)),
     recall |-> Ratio(matches, Len(expected)),
     extra_count |-> IF Len(actual) > matches THEN Len(actual) - matches ELSE 0,
     missing_count |-> Len(expected) - matches,
     position_analysis |-> position_analysis]

EvaluationOf(expected, actual, position_analysis) ==
    Evaluation(expected, actual, position_analysis, MatchesCount(position_analysis))

\* Lines 354-423 on the expected cells and the actual names.
EvaluateAgainst(expected, actual) ==
    IF actual # <<>> /\ \E i \in 1..Len(expected) : ~IsStr(expected[i])
    THEN Raised    \* name1.lower() of a number (line 430)
    ELSE EvaluationOf(expected, actual, PositionAnalysis(expected, actual))

EvaluateRecommendations(pa, conversation, persona_id) ==
    IF persona_id = None \/ ~DictHas(pa.persona_recommendations, persona_id.v)
    THEN [raised |-> FALSE, matched |-> FALSE, expected_recommendations |-> <<>>,
          actual_recommendations |-> <<>>, matched_items |-> Absent,
          extra_recommendations |-> Absent,
          accuracy |-> Ratio(0, 0), precision |-> Ratio(0, 0),
          recall |-> Ratio(0, 0), extra_count |-> 0, missing_count |-> 0,
          position_analysis |-> <<>>]
    ELSE EvaluateAgainst(DictGet(pa.persona_recommendations, persona_id.v),
                         ActualRecommendations(conversation))

-----------------------------------------------------------------------------
(* ast.literal_eval on a debug payload                                      *)

\* Python values: a string is the sequence of its parts between ' -> '
\* separators, each part a string of atoms; a list; a dict with its entries
\* in insertion order.
PyStr(parts) == [t |-> "pystr", parts |-> parts]
PyList(items) == [t |-> "list", items |-> items]
PyDict(entries) == [t |-> "dict", entries |-> entries]

\* The quoted string literals of the payload vocabulary, each one atom.
StringLiterals ==
    ("'Cuisine -> Italian'" :> << <<"Cuisine">>, <<"Italian">> >>) @@
    ("'Cuisine -> Sushi'" :> << <<"Cuisine">>, <<"Sushi">> >>) @@
    ("'Mood -> Romantic'" :> << <<"Mood">>, <<"Romantic">> >>) @@
    ("' Mood -> Romantic'" :> << <<"", "Mood">>, <<"Romantic">> >>) @@
    ("'Cuisine -> Italian -> Pasta'" :>
        << <<"Cuisine">>, <<"Italian">>, <<"Pasta">> >>) @@
    ("'Vegan'" :> << <<"Vegan">> >>) @@
    ("'results'" :> << <<"results">> >>) @@
    ("'Cuisine'" :> << <<"Cuisine">> >>) @@
    ("'Mood'" :> << <<"Mood">> >>) @@
    ("'0.9 -> Osteria Francescana'" :> << <<"0.9">>, <<"Osteria", "Francescana">> >>) @@
    ("'0.5 -> Osteria Francescana'" :> << <<"0.5">>, <<"Osteria", "Francescana">> >>) @@
    ("'0.7 -> Osteria Francescana'" :> << <<"0.7">>, <<"Osteria", "Francescana">> >>) @@
    ("'0.5 -> Parigi'" :> << <<"0.5">>, <<"Parigi">> >>) @@
    ("'Italian -> Cuisine'" :> << <<"Italian">>, <<"Cuisine">> >>) @@
    ("'0.7 -> Trattoria Bella'" :> << <<"0.7">>, <<"Trattoria", "Bella">> >>) @@
    ("'high -> Parigi'" :> << <<"high">>, <<"Parigi">> >>)

ParseFail == [ok |-> FALSE, val |-> None, next |-> 0]
ParseOk(v, n) == [ok |-> TRUE, val |-> v, next |-> n]

\* A recursive-descent reading of  value := string | [ value, ... ] |
\* { string: value, ... }  from atom i; a trailing comma is allowed.
RECURSIVE ParseValue(_, _), ParseListItems(_, _, _), ParseDictEntries(_, _, _)
RECURSIVE ListAfter(_, _, _), DictAfter(_, _, _, _), DictClose(_, _, _)
ParseValue(t, i) ==
    IF i > Len(t) THEN ParseFail
    ELSE IF t[i] \in DOMAIN StringLiterals
         THEN ParseOk(PyStr(StringLiterals[t[i]]), i + 1)
    ELSE IF t[i] = "[" THEN ParseListItems(t, i + 1, <<>>)
    ELSE IF t[i] = "{" THEN ParseDictEntries(t, i + 1, <<>>)
    ELSE ParseFail

\* What follows the item r of a list.
ListAfter(t, acc, r) ==
    IF ~r.ok \/ r.next > Len(t) THEN ParseFail
    ELSE IF t[r.next] = "," THEN ParseListItems(t, r.next + 1, Append(acc, r.val))
    ELSE IF t[r.next] = "]" THEN ParseOk(PyList(Append(acc, r.val)), r.next + 1)
    ELSE ParseFail

ParseListItems(t, i, acc) ==
    IF i > Len(t) THEN ParseFail
    ELSE IF t[i] = "]" THEN ParseOk(PyList(acc), i + 1)
    ELSE ListAfter(t, acc, ParseValue(t, i))

\* What follows an entry of a dict, at atom n.
DictClose(t, n, acc2) ==
    IF t[n] = "," THEN ParseDictEntries(t, n + 1, acc2)
    ELSE IF t[n] = "}" THEN ParseOk(PyDict(acc2), n + 1)
    ELSE ParseFail

\* The entry of a key and its value r.
DictAfter(t, acc, key, r) ==
    IF ~r.ok \/ r.next > Len(t) THEN ParseFail
    ELSE DictClose(t, r.next, DictSet(acc, key, r.val))

ParseDictEntries(t, i, acc) ==
    IF i > Len(t) THEN ParseFail
    ELSE IF t[i] = "}" THEN ParseOk(PyDict(acc), i + 1)
    ELSE IF t[i] \notin DOMAIN StringLiterals \/ i + 1 > Len(t) \/ t[i + 1] # ":"
         THEN ParseFail
    ELSE DictAfter(t, acc, StringLiterals[t[i]], ParseValue(t, i + 2))

\* ast.literal_eval: the whole string must be one literal.
WholeLiteral(t, r) == IF r.ok /\ r.next = Len(t) + 1 THEN r ELSE ParseFail

LiteralEval(t) == WholeLiteral(t, ParseValue(t, 1))

\* A string key of a dict literal, as the atoms of the string.
KeyOf(atoms) == << atoms >>

\* The atoms of a Python string: its parts joined by ' -> '.
RECURSIVE StrAtoms(_)
StrAtoms(parts) ==
    IF Len(parts) = 1 THEN parts[1]
    ELSE parts[1] \o <<"->">> \o StrAtoms(Tail(parts))

IsPyStr(v) == v.t = "pystr"
IsPyList(v) == v.t = "list"
IsPyDict(v) == v.t = "dict"
HasKey(d, word) == DictHas(d.entries, KeyOf(<<word>>))
GetKey(d, word) == DictGet(d.entries, KeyOf(<<word>>))

-----------------------------------------------------------------------------
(* ConciergeParser: classification and debug extraction                     *)

Agent == "Wagner"

PleaseWait == <<"Please,", "wait">>
PorFavor == <<"Por", "favor,", "aguarde">>
DebugTag == "[DEBUG]"
\* U+200E followed by "audio omitted" (line 566).
AudioOmitted == <<"<U+200E>audio", "omitted">>

\* A bug that tests the debug marker before the please-wait phrases.
DetermineMessageTypeDebugFirst(content, sender) ==
    IF sender = Agent THEN "user_request"
    ELSE IF content # <<>> /\ content[1] = DebugTag THEN "debug"
    ELSE IF Contains(content, PleaseWait) \/ Contains(content, PorFavor)
         THEN "processing"
    ELSE IF Contains(content, AudioOmitted) THEN "audio"
    ELSE "recommendation"

\* _determine_message_type (lines 558-569).
DetermineMessageType(content, sender) ==
    IF sender = Agent THEN "user_request"
    ELSE IF Contains(content, PleaseWait) \/ Contains(content, PorFavor)
         THEN "processing"
    ELSE IF content # <<>> /\ content[1] = DebugTag THEN "debug"
    ELSE IF Contains(content, AudioOmitted) THEN "audio"
    ELSE "recommendation"

\* The three markers as tested with `in`: the last word may go on (with
\* the colon the replaced prefix of two of them ends with).
WithColon(a) == a \o ":"

HasMarker(content, w1, w2) ==
    \E i \in 1..(Len(content) - 2) :
        /\ content[i] = DebugTag
        /\ content[i + 1] = w1
        /\ content[i + 2] \in {w2, WithColon(w2)}

\* content.replace(prefix + ' ', ''): every occurrence of the atoms of
\* prefix that another atom follows is removed.
RECURSIVE Replace(_, _)
Replace(content, prefix) ==
    IF Len(content) <= Len(prefix) THEN content
    ELSE IF SubSeq(content, 1, Len(prefix)) = prefix
         THEN Replace(SubSeq(content, Len(prefix) + 1, Len(content)), prefix)
    ELSE <<Head(content)>> \o Replace(Tail(content), prefix)

DebugInfo(type, decoded) ==
    IF decoded.ok THEN [type |-> type, data |-> decoded.val] ELSE None

ExtractDebugInfo(content) ==
    IF HasMarker(content, "Metadados", "relacionados")
    THEN DebugInfo("metadata",
             LiteralEval(Replace(content, <<DebugTag, "Metadados", "relacionados">>)))
    ELSE IF HasMarker(content, "Contexto", "entendido")
    THEN DebugInfo("context",
             LiteralEval(Replace(content, <<DebugTag, "Contexto", "entendido:">>)))
    ELSE IF HasMarker(content, "Restaurantes", "candidatos")
    THEN DebugInfo("candidates",
             LiteralEval(Replace(content, <<DebugTag, "Restaurantes", "candidatos:">>)))
    ELSE None

-----------------------------------------------------------------------------
(* ConciergeParser.parse_whatsapp_chat                                      *)

\* A transcript is the sequence of its physical lines.  A header line is
\* `[timestamp] sender: text`; a plain line is text only.
HeaderLine(ts, sender, text) ==
    [kind |-> "header", ts |-> ts, sender |-> sender, text |-> text]
PlainLine(text) == [kind |-> "plain", ts |-> None, sender |-> "", text |-> text]

\* Whether a line starts with `[YYYY-MM-DD`, what the lookahead of
\* message_pattern stops a message at.
StartsMessage(line) == line.kind = "header" /\ line.ts.layout \in {"iso12", "iso24"}

\* The atoms of a line read as message text.
LineAtoms(line) ==
    IF line.kind = "header"
    THEN <<"[timestamp]", WithColon(line.sender)>> \o line.text
    ELSE line.text

\* re.findall(message_pattern, chat_text, re.DOTALL): a message runs from a
\* `[...] sender: ` to the next `[YYYY-MM-DD` or to the end; the lines in
\* between are its content.  acc holds the triples found, open tells
\* whether the last one is still running.
RECURSIVE FindMessages(_, _, _)
FindMessages(lines, acc, open) ==
    IF lines = <<>> THEN acc
    ELSE LET line == Head(lines)
         IN  IF StartsMessage(line) \/ (line.kind = "header" /\ ~open)
             THEN FindMessages(Tail(lines),
                      Append(acc, [timestamp_str |-> line.ts, sender |-> line.sender,
                                   content |-> line.text \o <<NL>>]),
                      TRUE)
             ELSE IF open
             THEN FindMessages(Tail(lines),
                      [acc EXCEPT ![Len(acc)].content = @ \o LineAtoms(line) \o <<NL>>],
                      TRUE)
             ELSE FindMessages(Tail(lines), acc, FALSE)

Messages(text) == FindMessages(text, <<>>, FALSE)

\* The message dict of lines 512-518, with the keys added later absent.
NewMessage(timestamp, sender, content, conversation_id) ==
    [timestamp |-> timestamp, sender |-> sender, content |-> content,
     type |-> DetermineMessageType(content, sender),
     conversation_id |-> conversation_id,
     debug_info |-> Absent, persona_id |-> Absent,
     persona_description |-> Absent, recommendation_evaluation |-> Absent]

\* A bug that forgets to test who sent the message.
StartsConversationAnySender(sender, previous_sender, i) ==
    previous_sender # Agent \/ i = 0

\* The test of line 533; i is zero-based.
StartsConversation(sender, previous_sender, i) ==
    sender = Agent /\ (previous_sender # Agent \/ i = 0)

\* A bug that forgets the finished conversation when the next one starts.
FlushLost(convs, current, starts, i) == convs

\* Lines 534-535: the finished conversation joins the list when a later
\* message starts a new one.
Flush(convs, current, starts, i) ==
    IF starts /\ i > 0 THEN Append(convs, current) ELSE convs

\* Lines 533-541: the message joins the running conversation or starts
\* a new one.
StepAppend(st, m, i, message, debug_data2, starts) ==
    [conversations |->
         Flush(st.conversations, st.current_conversation, starts, i),
     current_conversation |->
         IF starts THEN <<message>>
         ELSE Append(st.current_conversation, message),
     debug_data |-> debug_data2,
     conversation_id |->
         IF starts /\ i > 0 THEN st.conversation_id + 1
         ELSE st.conversation_id,
     previous_sender |-> m.sender,
     raised |-> FALSE]

\* Lines 521-530: a decoded payload is stored on the message and in
\* debug_data.
StepDebug(st, m, i, message, debug_info) ==
    StepAppend(st, m, i,
        IF debug_info # None
        THEN [message EXCEPT !.debug_info = debug_info]
        ELSE message,
        IF debug_info # None
        THEN Append(st.debug_data,
                 [conversation_id |-> st.conversation_id,
                  timestamp |-> message.timestamp,
                  debug_type |-> debug_info.type, data |-> debug_info.data])
        ELSE st.debug_data,
        StartsConversation(m.sender, st.previous_sender, i))

StepMessage(st, m, i, message) ==
    StepDebug(st, m, i, message,
        IF message.type = "debug" THEN ExtractDebugInfo(message.content)
        ELSE None)

\* Lines 509-518 on the parsed timestamp.
StepParsed(st, m, i, parsed) ==
    IF ~parsed.ok THEN [st EXCEPT !.raised = TRUE]
    ELSE StepMessage(st, m, i,
             NewMessage(parsed.dt, m.sender, Strip(m.content), st.conversation_id))

\* One iteration of the loop of lines 507-541 on the loop state st.
ParseStep(st, m, i) ==
    IF st.raised THEN st ELSE StepParsed(st, m, i, StrpTime(m.timestamp_str))

RECURSIVE ParseLoop(_, _, _)
ParseLoop(st, messages, i) ==
    IF i >= Len(messages) THEN st
    ELSE ParseLoop(ParseStep(st, messages[i + 1], i), messages, i + 1)

\* Lines 544-545: the last conversation joins the list when the loop did
\* not raise.
FlushLast(st) ==
    IF ~st.raised /\ st.current_conversation # <<>>
    THEN [st EXCEPT !.conversations = Append(@, st.current_conversation)]
    ELSE st

\* The parser state after lines 489-545: the reset, the loop, and the
\* flush of the last conversation.
ParseConversations(text) ==
    FlushLast(ParseLoop([conversations |-> <<>>, current_conversation |-> <<>>,
                         debug_data |-> <<>>, conversation_id |-> 0,
                         previous_sender |-> "None", raised |-> FALSE],
                        Messages(text), 0))

-----------------------------------------------------------------------------
(* ConciergeParser: personas and the reference restaurant list              *)

\* Lines 749-754: the first sheet name that is the same restaurant.
FirstSimilar(sheets, similar) ==
    IF similar # {} THEN Str(sheets[Least(similar)]) ELSE None

\* Lines 744-754: a case-insensitively identical sheet name first.
ExactOrSimilar(pa, sheets, name, exact) ==
    IF exact # {} THEN Str(sheets[Least(exact)])
    ELSE IF pa # None
         THEN FirstSimilar(sheets,
                  {i \in 1..Len(sheets) : IsSameRestaurant(name, sheets[i])})
    ELSE None

\* match_restaurant_to_sheet (lines 738-754) on a cell: the sheet name, or
\* None; a number that is not zero raises at restaurant_name.lower().
MatchRestaurantToSheet(pa, sheets, restaurant_name) ==
    IF sheets = <<>> \/ ~Truthy(restaurant_name) THEN None
    ELSE IF ~IsStr(restaurant_name) THEN Raised
    ELSE ExactOrSimilar(pa, sheets, restaurant_name.v,
             {i \in 1..Len(sheets) :
                 Strip(Lower(restaurant_name.v)) = Strip(Lower(sheets[i]))})

\* Whether matching a list of cells to the sheets raises.
SheetMatchRaises(pa, sheets, cells) ==
    \E i \in 1..Len(cells) : MatchRestaurantToSheet(pa, sheets, cells[i]) = Raised

SheetEntry(cell, sheet_match) ==
    [extracted |-> cell, sheet_match |-> sheet_match,
     name |-> IF sheet_match # None THEN sheet_match ELSE cell]

\* The entries of lines 776-782 and 816-822 for a list of cells.
SheetMatches(pa, sheets, cells) ==
    [i \in 1..Len(cells) |->
        SheetEntry(cells[i], MatchRestaurantToSheet(pa, sheets, cells[i]))]

ExpectedEntry(cell, sheet_match) ==
    [original |-> cell, sheet_match |-> sheet_match,
     name |-> IF sheet_match # None THEN sheet_match ELSE cell]

\* The entries of lines 628-634 for the expected recommendations.
MatchedExpected(pa, sheets, cells) ==
    [i \in 1..Len(cells) |->
        ExpectedEntry(cells[i], MatchRestaurantToSheet(pa, sheets, cells[i]))]

\* The persona dict with this id, or None (line 638).
PersonaAt(pa, idx) == IF idx = {} THEN None ELSE pa.personas[Least(idx)]

PersonaInfo(pa, persona_id) ==
    PersonaAt(pa, {i \in 1..Len(pa.personas) : pa.personas[i].id = persona_id})

\* A bug that stores the evaluation on the first recommendation message
\* that has none yet.
EvaluationTargetUnevaluated(conversation) ==
    FirstIn({i \in 1..Len(conversation) :
                /\ conversation[i].type = "recommendation"
                /\ conversation[i].recommendation_evaluation = Absent})

\* The message the evaluation is stored on (lines 647-650), 0 if none.
EvaluationTarget(conversation) == FirstOfType(conversation, "recommendation")

\* A bug that stores the persona on the evaluated message only.
AnnotateTargetOnly(conversation, persona_id, persona_info, evaluation, target) ==
    [i \in 1..Len(conversation) |->
        IF i = target
        THEN [conversation[i] EXCEPT
                 !.persona_id = persona_id,
                 !.persona_description =
                     IF persona_info # None THEN persona_info.description ELSE @,
                 !.recommendation_evaluation = evaluation]
        ELSE conversation[i]]

\* Lines 641-650: the persona on every message, the evaluation on the
\* target message.
Annotate(conversation, persona_id, persona_info, evaluation, target) ==
    [i \in 1..Len(conversation) |->
        [conversation[i] EXCEPT
            !.persona_id = persona_id,
            !.persona_description =
                IF persona_info # None THEN persona_info.description ELSE @,
            !.recommendation_evaluation =
                IF i = target THEN evaluation ELSE @]]

\* Lines 625-650 on the evaluation of the conversation.
AnalyzeEvaluated(pa, sheets, conversation, persona_id, evaluation) ==
    IF evaluation = Raised
    THEN [conversation |-> conversation, raised |-> TRUE]
    ELSE IF SheetMatchRaises(pa, sheets, evaluation.expected_recommendations)
    THEN [conversation |-> conversation, raised |-> TRUE]
    ELSE [conversation |->
             Annotate(conversation, persona_id, PersonaInfo(pa, persona_id.v),
                 [eval |-> evaluation,
                  matched_expected |->
                      IF sheets # <<>>
                      THEN MatchedExpected(pa, sheets,
                               evaluation.expected_recommendations)
                      ELSE Absent],
                 EvaluationTarget(conversation)),
          raised |-> FALSE]

\* Lines 622-650 on the persona matched.
AnalyzeMatched(pa, sheets, conversation, persona_id) ==
    IF persona_id = None THEN [conversation |-> conversation, raised |-> FALSE]
    ELSE AnalyzeEvaluated(pa, sheets, conversation, persona_id,
             EvaluateRecommendations(pa, conversation, persona_id))

\* The body of the loop of analyze_personas for one conversation
\* (lines 619-650): the conversation afterwards, and whether an exception
\* left the body (the messages are annotated after the last call that can
\* raise, so the conversation is then as it was).
AnalyzeConversation(pa, sheets, conversation) ==
    AnalyzeMatched(pa, sheets, conversation,
                   MatchConversationToPersona(pa, conversation))

\* analyze_personas (lines 611-650) on a conversation list: the list
\* afterwards and whether the call raised; the conversations before the
\* one that raised keep their annotations.
RECURSIVE AnalyzeFromConversation(_, _, _, _), AnalyzeNext(_, _, _, _, _)
AnalyzeNext(pa, sheets, convs, i, r) ==
    IF r.raised THEN [conversations |-> convs, raised |-> TRUE]
    ELSE AnalyzeFromConversation(pa, sheets,
             [convs EXCEPT ![i] = r.conversation], i + 1)

AnalyzeFromConversation(pa, sheets, convs, i) ==
    IF i > Len(convs) THEN [conversations |-> convs, raised |-> FALSE]
    ELSE AnalyzeNext(pa, sheets, convs, i,
                     AnalyzeConversation(pa, sheets, convs[i]))

AnalyzePersonasOn(pa, sheets, convs) ==
    IF pa = None THEN [conversations |-> convs, raised |-> FALSE]
    ELSE AnalyzeFromConversation(pa, sheets, convs, 1)

-----------------------------------------------------------------------------
(* ConciergeParser: the reference list and the recommendation report        *)

\* non_restaurant_sheets (lines 863-866)
NonRestaurantSheets ==
    {<<"sheet1">>, <<"sheet2">>, <<"sheet3">>, <<"sheet4">>, <<"sheet5">>,
     <<"index">>, <<"data">>, <<"info">>, <<"summary">>, <<"contents">>,
     <<"cover">>}

\* The sheet names of the workbooks considered, in the order list.sort()
\* gives them (code point order: digits, capitals, the underscore).
SheetNameOrder ==
    << <<"42">>, <<"Bella", "Trattoria">>, <<"Il", "Ristorante">>,
       <<"Osteria", "Francescana">>, <<"Osteria", "Francescana", "Restaurant">>,
       <<"Parigi">>, <<"Sheet1">>, <<"Summary">>, <<"Trattoria", "Bella">>,
       <<"X">>, <<"_notes">> >>

\* str.isdigit() and str.startswith('_') on these names.
IsDigit(name) == name = <<"42">>
StartsWithUnderscore(name) == name = <<"_notes">>

\* list.sort() of names of SheetNameOrder.
SortNames(names) ==
    SelectSeq(SheetNameOrder, LAMBDA n : n \in ToSet(names))

\* extract_sheet_restaurants (lines 849-892): the new sheet_restaurants; a
\* file that is no workbook, or that pandas cannot read, leaves the list
\* empty.
ExtractSheetRestaurants(file) ==
    IF file.extension \in {".xlsx", ".xls"} /\ file.readable
    THEN LET known == SelectSeq(file.sheet_names,
                          LAMBDA name : Strip(Lower(name)) \notin NonRestaurantSheets)
             valid == SelectSeq(known,
                          LAMBDA name : /\ ~IsDigit(Strip(name))
                                        /\ ~StartsWithUnderscore(Strip(name))
                                        /\ StrLen(Strip(name)) > 1)
         IN  SortNames(valid)
    ELSE <<>>

\* The candidate entries of one debug message (lines 787-802): the list,
\* and whether .items() raised on results that are no dict.
CandidateNames(results) ==
    Flatten([e \in 1..Len(results.entries) |->
        LET values == IF IsPyList(results.entries[e].v)
                      THEN SelectSeq(results.entries[e].v.items,
                               LAMBDA value : IsPyStr(value) /\ Len(value.parts) > 1)
                      ELSE <<>>
        IN  [i \in 1..Len(values) |->
                [category |-> StrAtoms(results.entries[e].k),
                 extracted |-> values[i].parts[2]]]])

HasCandidates(msg) ==
    /\ msg.type = "debug" /\ msg.debug_info # Absent
    /\ msg.debug_info.type = "candidates"
    /\ \/ IsPyDict(msg.debug_info.data) /\ HasKey(msg.debug_info.data, "results")
       \/ IsPyList(msg.debug_info.data)
          /\ PyStr(<< <<"results">> >>) \in ToSet(msg.debug_info.data.items)
       \/ IsPyStr(msg.debug_info.data)
          /\ Contains(StrAtoms(msg.debug_info.data.parts), <<"results">>)

CandidatesRaise(conversation) ==
    \E i \in 1..Len(conversation) :
        /\ HasCandidates(conversation[i])
        /\ \/ ~IsPyDict(conversation[i].debug_info.data)   \* data['results'] of a list
           \/ ~IsPyDict(GetKey(conversation[i].debug_info.data, "results"))

CandidateRestaurants(pa, sheets, conversation) ==
    LET msgs == SelectSeq(conversation, HasCandidates)
        found == Flatten([m \in 1..Len(msgs) |->
                     CandidateNames(GetKey(msgs[m].debug_info.data, "results"))])
    IN  [i \in 1..Len(found) |->
            LET sheet_match == MatchRestaurantToSheet(pa, sheets, Str(found[i].extracted))
            IN  [category |-> found[i].category, extracted |-> found[i].extracted,
                 sheet_match |-> sheet_match,
                 name |-> IF sheet_match # None THEN sheet_match
                          ELSE Str(found[i].extracted)]]

\* The first value of a key that some message of the conversation holds,
\* or None (lines 805-806).
FirstHeld(values) ==
    LET held == SelectSeq(values, LAMBDA v : v # Absent)
    IN  IF held = <<>> THEN None ELSE held[1]

\* The item of extract_restaurant_recommendations for conversation i
\* (lines 760-845), which has a recommendation message at index m.
RecommendationItem(pa, sheets, conversation, i, m) ==
    LET r == FirstOfType(conversation, "user_request")
        content == conversation[m].content
        potential_restaurants == FindRestaurants(content)
        cells == [k \in 1..Len(potential_restaurants) |-> Str(potential_restaurants[k])]
        stored == conversation[m].recommendation_evaluation
        expected_recommendations ==
            IF stored = Absent THEN <<>> ELSE stored.eval.expected_recommendations
        persona_id == FirstHeld([k \in 1..Len(conversation) |-> conversation[k].persona_id])
    IN  [conversation_id |-> i,
         request |-> IF r = 0 THEN <<"No", "request">> ELSE conversation[r].content,
         potential_restaurants |-> potential_restaurants,
         matched_restaurants |-> SheetMatches(pa, sheets, cells),
         candidate_restaurants |-> CandidateRestaurants(pa, sheets, conversation),
         sheet_restaurants |-> sheets,
         full_recommendation |-> content,
         persona_id |-> IF persona_id # None THEN persona_id ELSE Absent,
         persona_description |->
             IF persona_id # None
             THEN FirstHeld([k \in 1..Len(conversation) |->
                                conversation[k].persona_description])
             ELSE Absent,
         expected_restaurants |->
             IF stored = Absent THEN Absent ELSE [list |-> expected_recommendations],
         matched_expected |->
             IF stored = Absent THEN Absent
             ELSE [list |-> IF sheets # <<>>
                            THEN SheetMatches(pa, sheets, expected_recommendations)
                            ELSE <<>>],
         accuracy |-> IF stored = Absent THEN Absent ELSE stored.eval.accuracy]

ItemRaisesOn(pa, sheets, conversation, m) ==
    \/ CandidatesRaise(conversation)
    \/ /\ conversation[m].recommendation_evaluation # Absent
       /\ SheetMatchRaises(pa, sheets,
              conversation[m].recommendation_evaluation.eval.expected_recommendations)

\* extract_restaurant_recommendations (lines 756-847): the list, or an
\* exception.
ExtractRestaurantRecommendations(pa, sheets, convs) ==
    LET with == SelectSeq([i \in 1..Len(convs) |-> i],
                    LAMBDA i : FirstOfType(convs[i], "recommendation") # 0)
    IN  IF \E n \in 1..Len(with) :
              ItemRaisesOn(pa, sheets, convs[with[n]],
                           FirstOfType(convs[with[n]], "recommendation"))
        THEN Raised
        ELSE [raised |-> FALSE,
              recommendations |->
                  [n \in 1..Len(with) |->
                      RecommendationItem(pa, sheets, convs[with[n]], with[n] - 1,
                          FirstOfType(convs[with[n]], "recommendation"))]]

-----------------------------------------------------------------------------
(* DebugAnalyzer: state, counters and graphs                                *)

\* collections.Counter as an insertion-ordered dict of counts.
CounterAdd(c, k) == IF DictHas(c, k) THEN DictSet(c, k, DictGet(c, k) + 1)
                    ELSE DictSet(c, k, 1)
CounterTotal(c) == SumSeq([i \in 1..Len(c) |-> c[i].v])

\* The index of the entry most_common puts first: the largest count, the
\* earliest inserted among equals.
TopIndex(c) ==
    CHOOSE i \in 1..Len(c) :
        \A k \in 1..Len(c) : c[k].v < c[i].v \/ (c[k].v = c[i].v /\ i <= k)

RemoveAt(s, i) == SubSeq(s, 1, i - 1) \o SubSeq(s, i + 1, Len(s))

\* Counter.most_common(n)
RECURSIVE MostCommon(_, _)
MostCommon(c, n) ==
    IF n = 0 \/ c = <<>> THEN <<>>
    ELSE LET i == TopIndex(c)
         IN  <<c[i]>> \o MostCommon(RemoveAt(c, i), n - 1)

-----------------------------------------------------------------------------
(* DebugAnalyzer.analyze_concept_relationships                              *)

\* f"{category}: {concept}" (lines 360-361).
ConceptLabel(p) == p[1] \o <<":">> \o p[2]

\* The index pairs of the two loops of lines 357-358, in loop order.
IndexPairs(n) ==
    SelectSeq(Flatten([i \in 1..n |-> [j \in 1..n |-> <<i, j>>]]),
              LAMBDA p : p[1] < p[2])

\* The orders in which a set can be iterated.
Orders(S) ==
    {o \in [1..Cardinality(S) -> S] :
        \A i, j \in 1..Cardinality(S) : i # j => o[i] # o[j]}

\* list(set(...)) of line 353 for every conversation: Python fixes no
\* order for the elements of a set; the same list of pairs, inserted in
\* the same order, is iterated in the same order.
SetOrders(concepts) ==
    {o \in [1..Len(concepts) ->
                UNION {Orders(ToSet(concepts[k].v)) : k \in 1..Len(concepts)}] :
        /\ \A k \in 1..Len(concepts) : o[k] \in Orders(ToSet(concepts[k].v))
        /\ \A k, l \in 1..Len(concepts) :
              concepts[k].v = concepts[l].v => o[k] = o[l]}

\* Lines 357-363 for one conversation, unique_concepts being its set in
\* iteration order.
RECURSIVE CountPairs(_, _, _)
CountPairs(concept_pairs, unique_concepts, idx) ==
    IF idx = <<>> THEN concept_pairs
    ELSE CountPairs(
             CounterAdd(concept_pairs,
                 <<ConceptLabel(unique_concepts[Head(idx)[1]]),
                   ConceptLabel(unique_concepts[Head(idx)[2]])>>),
             unique_concepts, Tail(idx))

\* The loop of line 351 from the k-th conversation on.
RECURSIVE ConceptPairs(_, _, _)
ConceptPairs(concept_pairs, orders, k) ==
    IF k > Len(orders) THEN concept_pairs
    ELSE ConceptPairs(
             CountPairs(concept_pairs, orders[k], IndexPairs(Len(orders[k]))),
             orders, k + 1)

\* analyze_concept_relationships (lines 345-366), orders being the
\* iteration orders of the sets.
AnalyzeConceptRelationships(orders) == MostCommon(ConceptPairs(<<>>, orders, 1), 20)

\* networkx.Graph: the nodes with their type attribute and the undirected
\* edges with their weight attribute, in insertion order.
EmptyGraph == [nodes |-> <<>>, edges |-> <<>>]

AddNode(g, id, type) == [g EXCEPT !.nodes = DictSet(@, id, type)]

SameEdge(e, u, v) == (e.u = u /\ e.v = v) \/ (e.u = v /\ e.v = u)

\* A bug that adds a parallel edge for a pair that recurs.
AddEdgeParallel(g, u, v, w) ==
    [g EXCEPT !.edges = Append(@, [u |-> u, v |-> v, weight |-> w])]

\* add_edge(u, v, weight=w): a second edge between the same nodes replaces
\* the weight of the first.
AddEdge(g, u, v, w) ==
    IF \E i \in 1..Len(g.edges) : SameEdge(g.edges[i], u, v)
    THEN [g EXCEPT !.edges =
            [i \in 1..Len(@) |-> IF SameEdge(@[i], u, v)
                                 THEN [@[i] EXCEPT !.weight = w] ELSE @[i]]]
    ELSE [g EXCEPT !.edges = Append(@, [u |-> u, v |-> v, weight |-> w])]

\* DebugAnalyzer.__init__ (lines 28-39); raised tells that the last
\* load_conversations ended in an exception, aliased that conversations is
\* the very list object the parser holds (line 43 stores the reference).
NewDebugAnalyzer ==
    [conversations |-> <<>>, debug_messages |-> <<>>,
     concept_network |-> EmptyGraph, restaurant_network |-> EmptyGraph,
     category_counts |-> <<>>, concept_counts |-> <<>>,
     restaurant_counts |-> <<>>, category_concept_map |-> <<>>,
     conversation_concepts |-> <<>>, category_restaurant_map |-> <<>>,
     concept_restaurant_map |-> <<>>, raised |-> FALSE, aliased |-> FALSE]

\* extract_debug_data (lines 49-69).
ConversationDebug(conversation, conv_idx) ==
    LET idx == SelectSeq([i \in 1..Len(conversation) |-> i],
                   LAMBDA i : /\ conversation[i].type = "debug"
                              /\ conversation[i].debug_info # Absent)
    IN  [n \in 1..Len(idx) |->
            [type |-> conversation[idx[n]].debug_info.type,
             data |-> conversation[idx[n]].debug_info.data,
             conversation_id |-> conv_idx,
             message_idx |-> idx[n] - 1,
             timestamp |-> conversation[idx[n]].timestamp]]

\* A bug that takes every debug-typed message for a decoded one.
ExtractDebugDataAll(convs) ==
    Flatten([c \in 1..Len(convs) |->
        LET idx == SelectSeq([i \in 1..Len(convs[c]) |-> i],
                       LAMBDA i : convs[c][i].type = "debug")
        IN  [n \in 1..Len(idx) |->
                [type |-> IF convs[c][idx[n]].debug_info # Absent
                          THEN convs[c][idx[n]].debug_info.type ELSE "metadata",
                 data |-> IF convs[c][idx[n]].debug_info # Absent
                          THEN convs[c][idx[n]].debug_info.data ELSE PyList(<<>>),
                 conversation_id |-> c - 1, message_idx |-> idx[n] - 1,
                 timestamp |-> convs[c][idx[n]].timestamp]]])

ExtractDebugData(convs) ==
    Flatten([c \in 1..Len(convs) |-> ConversationDebug(convs[c], c - 1)])

Raise(d) == [d EXCEPT !.raised = TRUE]

\* _add_concept_relation (lines 139-161); category and value are strings.
AddConceptRelation(d, category0, value0, conv_id) ==
    LET category == Strip(category0)
        value == Strip(value0)
        known == IF DictHas(d.category_concept_map, category)
                 THEN DictGet(d.category_concept_map, category) ELSE <<>>
        concepts == IF DictHas(d.conversation_concepts, conv_id)
                    THEN DictGet(d.conversation_concepts, conv_id) ELSE <<>>
    IN  [d EXCEPT
            !.category_counts = CounterAdd(@, category),
            !.concept_counts = CounterAdd(@, value),
            !.category_concept_map =
                DictSet(@, category,
                    IF value \in ToSet(known) THEN known ELSE Append(known, value)),
            !.conversation_concepts =
                DictSet(@, conv_id, Append(concepts, <<category, value>>)),
            !.concept_network =
                AddEdge(AddNode(AddNode(@, category, "category"), value, "concept"),
                        category, value, None)]

\* The body of the loop of line 89 for one item of a metadata list.
MetadataListItem(d, item, conv_id) ==
    IF d.raised THEN d
    ELSE IF IsPyStr(item) /\ Len(item.parts) > 1
         THEN IF Len(item.parts) # 2
              THEN Raise(d)    \* `category, value = item.split(' -> ')`
              ELSE AddConceptRelation(d, item.parts[1], item.parts[2], conv_id)
    ELSE IF IsPyDict(item) /\ HasKey(item, "category") /\ HasKey(item, "value")
         THEN IF IsPyStr(GetKey(item, "category")) /\ IsPyStr(GetKey(item, "value"))
              THEN AddConceptRelation(d, StrAtoms(GetKey(item, "category").parts),
                                      StrAtoms(GetKey(item, "value").parts), conv_id)
              ELSE Raise(d)    \* .strip() of a list or a dict
    ELSE d

\* The body of the loop of line 101 for one value of a category's list.
MetadataDictValue(d, category, value, conv_id) ==
    IF d.raised THEN d
    ELSE IF IsPyStr(value)
         THEN AddConceptRelation(d, category, StrAtoms(value.parts), conv_id)
    ELSE IF IsPyDict(value) /\ HasKey(value, "value")
         THEN IF IsPyStr(GetKey(value, "value"))
              THEN AddConceptRelation(d, category,
                                      StrAtoms(GetKey(value, "value").parts), conv_id)
              ELSE Raise(d)
    ELSE d

RECURSIVE MetadataList(_, _, _), MetadataDictValues(_, _, _, _), MetadataDict(_, _, _)
MetadataList(d, items, conv_id) ==
    IF items = <<>> THEN d
    ELSE MetadataList(MetadataListItem(d, Head(items), conv_id), Tail(items), conv_id)

MetadataDictValues(d, category, values, conv_id) ==
    IF values = <<>> THEN d
    ELSE MetadataDictValues(MetadataDictValue(d, category, Head(values), conv_id),
                            category, Tail(values), conv_id)

MetadataDict(d, entries, conv_id) ==
    IF entries = <<>> THEN d
    ELSE LET e == Head(entries)
             d2 == IF IsPyList(e.v)
                   THEN MetadataDictValues(d, StrAtoms(e.k), e.v.items, conv_id)
                   ELSE d
         IN  MetadataDict(d2, Tail(entries), conv_id)

\* A bug that reads every score as 0.0.
FloatZero(atoms) == 0

\* float(score_str.strip()) in tenths; a ValueError gives 0.0.
ScoreTable == (<<"0.9">> :> 9) @@ (<<"0.7">> :> 7) @@ (<<"0.5">> :> 5)
Float(atoms) == IF Strip(atoms) \in DOMAIN ScoreTable THEN ScoreTable[Strip(atoms)]
                ELSE 0

\* The body of the loop of line 116 for one restaurant entry of a category.
CandidateItem(d, category, item) ==
    LET named == IsPyDict(item) /\ HasKey(item, "name")
        arrow == IsPyStr(item) /\ Len(item.parts) > 1
        restaurant == IF arrow THEN item.parts[2]
                      ELSE StrAtoms(GetKey(item, "name").parts)
        score == IF arrow THEN Float(item.parts[1])
                 ELSE IF HasKey(item, "score") THEN GetKey(item, "score") ELSE 0
    IN  IF d.raised THEN d
        ELSE IF arrow /\ Len(item.parts) # 2
             THEN Raise(d)    \* `score_str, restaurant = item.split(' -> ')`
        ELSE IF named /\ ~IsPyStr(GetKey(item, "name"))
             THEN IF GetKey(item, "name") \in {PyList(<<>>), PyDict(<<>>)}
                  THEN d      \* an empty name is skipped
                  ELSE Raise(d)   \* an unhashable Counter key
        ELSE IF (arrow \/ named) /\ restaurant # <<>>
             THEN [d EXCEPT
                     !.restaurant_counts = CounterAdd(@, restaurant),
                     !.restaurant_network =
                         AddEdge(AddNode(@, restaurant, "restaurant"),
                                 category, restaurant, score)]
        ELSE d

RECURSIVE CandidateItems(_, _, _), CandidateCategories(_, _)
CandidateItems(d, category, items) ==
    IF items = <<>> THEN d
    ELSE CandidateItems(CandidateItem(d, category, Head(items)), category, Tail(items))

CandidateCategories(d, entries) ==
    IF entries = <<>> \/ d.raised THEN d
    ELSE LET e == Head(entries)
             d2 == IF IsPyList(e.v)
                   THEN CandidateItems(
                            [d EXCEPT !.restaurant_network =
                                AddNode(@, StrAtoms(e.k), "category")],
                            StrAtoms(e.k), e.v.items)
                   ELSE d
         IN  CandidateCategories(d2, Tail(entries))

\* The body of the loop of line 83 for one debug record.
BuildDebug(d, debug) ==
    IF d.raised THEN d
    ELSE IF debug.type = "metadata"
         THEN IF IsPyList(debug.data)
              THEN MetadataList(d, debug.data.items, debug.conversation_id)
              ELSE IF IsPyDict(debug.data)
              THEN MetadataDict(d, debug.data.entries, debug.conversation_id)
              ELSE d
    ELSE IF debug.type = "candidates"
         THEN IF IsPyDict(debug.data) /\ HasKey(debug.data, "results")
              THEN IF IsPyDict(GetKey(debug.data, "results"))
                   THEN CandidateCategories(d, GetKey(debug.data, "results").entries)
                   ELSE Raise(d)   \* .items() of a list or a string
              ELSE d
    ELSE d

RECURSIVE BuildLoop(_, _)
BuildLoop(d, debugs) ==
    IF debugs = <<>> THEN d ELSE BuildLoop(BuildDebug(d, Head(debugs)), Tail(debugs))

\* build_networks (lines 71-137): the reset, then the loop.
BuildNetworks(d) ==
    BuildLoop([d EXCEPT
                 !.concept_network = EmptyGraph, !.restaurant_network = EmptyGraph,
                 !.category_counts = <<>>, !.concept_counts = <<>>,
                 !.restaurant_counts = <<>>, !.category_concept_map = <<>>,
                 !.conversation_concepts = <<>>],
              d.debug_messages)

-----------------------------------------------------------------------------
(* ConciergeParser.generate_metadata_network                                *)

\* Lines 902-906 for one item of a record's data, given as the parts
\* ' -> ' splits it into (one part when the separator is not in it).
NetworkItem(g, parts) ==
    IF g.raised \/ Len(parts) < 2 THEN g
    ELSE IF Len(parts) # 2
         THEN [g EXCEPT !.raised = TRUE]   \* `category, value = item.split(' -> ')`
    ELSE AddEdge(AddNode(AddNode(g, parts[1], "category"), parts[2], "value"),
                 parts[1], parts[2], None)

\* What `for item in debug['data']` yields, as parts: the strings of a
\* list (an item that is a list or a dict holds no separator), the keys of
\* a dict, the characters of a string (none holds the separator).
NetworkItems(data) ==
    IF IsPyList(data)
    THEN [i \in 1..Len(data.items) |->
             IF IsPyStr(data.items[i]) THEN data.items[i].parts ELSE <<>>]
    ELSE IF IsPyDict(data)
    THEN [i \in 1..Len(data.entries) |-> data.entries[i].k]
    ELSE <<>>

RECURSIVE NetworkLoop(_, _)
NetworkLoop(g, items) ==
    IF items = <<>> THEN g ELSE NetworkLoop(NetworkItem(g, Head(items)), Tail(items))

\* The items of the metadata records, record after record (lines 899-901).
NetworkMetadata(records) ==
    Flatten([r \in 1..Len(records) |->
                IF records[r].debug_type = "metadata"
                THEN NetworkItems(records[r].data) ELSE <<>>])

\* Lines 909-912 on the graph built.
NetworkResponse(g) ==
    IF g.raised THEN Raised
    ELSE [nodes |-> [i \in 1..Len(g.nodes) |->
                        [id |-> g.nodes[i].k, type |-> g.nodes[i].v]],
          edges |-> [i \in 1..Len(g.edges) |->
                        [source |-> g.edges[i].u, target |-> g.edges[i].v]]]

\* generate_metadata_network (lines 894-912) on the parser's debug_data.
GenerateMetadataNetwork(records) ==
    NetworkResponse(NetworkLoop([nodes |-> <<>>, edges |-> <<>>, raised |-> FALSE],
                                NetworkMetadata(records)))

-----------------------------------------------------------------------------
(* DebugAnalyzer: recommendations and the read-only reports                 *)

\* str.rstrip('.,:;') of the last atom; the vocabulary of recommendation
\* messages has one atom that ends with such a character.
RStripPunct(s) ==
    IF s # <<>> /\ s[Len(s)] = "Bella." THEN [s EXCEPT ![Len(s)] = "Bella"]
    ELSE s

\* The atoms the second to fourth patterns of line 195 need before they
\* match: a digit followed by a dot, a double quote, one of the verbs
\* recommend, try, visit, suggest.  No atom of the recommendation
\* vocabulary holds one, so on these inputs only the bullet pattern finds
\* names.
OtherPatternMatches(content) == <<>>

\* _extract_recommended_restaurants (lines 185-219).
RECURSIVE RecommendedIn(_)
RecommendedIn(conversation) ==
    IF conversation = <<>> THEN <<>>
    ELSE LET msg == Head(conversation)
             extracted == FindAllFrom(msg.content, 1, {"-", "*", "<bullet>"})
                              \o OtherPatternMatches(msg.content)
             kept == SelectSeq(extracted, LAMBDA rest : StrLen(Strip(rest)) > 1)
         IN  IF msg.type = "recommendation" /\ extracted # <<>>
             THEN [i \in 1..Len(kept) |-> RStripPunct(Strip(kept[i]))]
             ELSE RecommendedIn(Tail(conversation))

ExtractRecommendedRestaurants(d, conv_id) ==
    IF conv_id < Len(d.conversations) THEN RecommendedIn(d.conversations[conv_id + 1])
    ELSE <<>>

\* d[k][r] += 1 on a defaultdict(Counter).
CreditOnce(m, k, r) ==
    DictSet(m, k, CounterAdd(IF DictHas(m, k) THEN DictGet(m, k) ELSE <<>>, r))

\* A bug that credits a category once per conversation and restaurant,
\* however many of its concepts the conversation holds.
CreditCategoryOnce(m, category, restaurant, seen) ==
    IF seen THEN m ELSE CreditOnce(m, category, restaurant)

\* The category side of line 183.
CreditCategory(m, category, restaurant, seen) == CreditOnce(m, category, restaurant)

\* Lines 180-183 for one conversation: every (category, concept) entry is
\* credited with every restaurant.
RECURSIVE CreditRestaurants(_, _, _, _), CreditConcepts(_, _, _, _)
CreditRestaurants(d, pair, restaurants, seen) ==
    IF restaurants = <<>> THEN d
    ELSE CreditRestaurants(
             [d EXCEPT
                !.concept_restaurant_map = CreditOnce(@, pair, Head(restaurants)),
                !.category_restaurant_map =
                    CreditCategory(@, pair[1], Head(restaurants), seen)],
             pair, Tail(restaurants), seen)

CreditConcepts(d, concept_list, k, restaurants) ==
    IF k > Len(concept_list) THEN d
    ELSE CreditConcepts(
             CreditRestaurants(d, concept_list[k], restaurants,
                 \E j \in 1..(k - 1) : concept_list[j][1] = concept_list[k][1]),
             concept_list, k + 1, restaurants)

RECURSIVE AnalyzeFrom(_, _)
AnalyzeFrom(d, conv_id) ==
    IF conv_id >= Len(d.conversations) THEN d
    ELSE LET concept_list == IF DictHas(d.conversation_concepts, conv_id)
                             THEN DictGet(d.conversation_concepts, conv_id)
                             ELSE <<>>
         IN  AnalyzeFrom(
                 IF concept_list = <<>> THEN d
                 ELSE CreditConcepts(d, concept_list, 1,
                                     ExtractRecommendedRestaurants(d, conv_id)),
                 conv_id + 1)

\* analyze_recommendations (lines 163-183).
AnalyzeRecommendations(d) ==
    AnalyzeFrom([d EXCEPT !.category_restaurant_map = <<>>,
                          !.concept_restaurant_map = <<>>], 0)

\* load_conversations (lines 41-47): an exception of build_networks leaves
\* what was built so far and skips analyze_recommendations.
LoadConversationsInto(d, convs) ==
    LET built == BuildNetworks([d EXCEPT !.conversations = convs,
                                         !.debug_messages = ExtractDebugData(convs),
                                         !.raised = FALSE, !.aliased = TRUE])
    IN  IF built.raised THEN built ELSE AnalyzeRecommendations(built)

\* get_conversation_debug_sequence (lines 221-224).
ConversationDebugSequence(d, conversation_id) ==
    SelectSeq(d.debug_messages, LAMBDA x : x.conversation_id = conversation_id)

\* Python truth of a decoded value.
PyTruthy(v) ==
    IF IsPyStr(v) THEN StrAtoms(v.parts) # <<>>
    ELSE IF IsPyList(v) THEN v.items # <<>>
    ELSE v.entries # <<>>

\* Whether the loop body of analyze_concept_evolution (lines 237-315)
\* raises on an item of a metadata list: an unpacking of three parts, or
\* .strip() of a value that is no string.
ItemRaises(item) ==
    \/ IsPyStr(item) /\ Len(item.parts) > 2
    \/ /\ IsPyDict(item) /\ HasKey(item, "category") /\ HasKey(item, "value")
       /\ ~(IsPyStr(GetKey(item, "category")) /\ IsPyStr(GetKey(item, "value")))

\* The same for a restaurant entry of a candidates category (lines 291-309).
CandidateRaises(item) ==
    \/ IsPyStr(item) /\ Len(item.parts) > 2
    \/ /\ IsPyDict(item) /\ HasKey(item, "name")
       /\ ~IsPyStr(GetKey(item, "name")) /\ PyTruthy(GetKey(item, "name"))

EvolutionRaises(debug) ==
    IF debug.type = "metadata"
    THEN IF IsPyList(debug.data)
         THEN \E i \in 1..Len(debug.data.items) : ItemRaises(debug.data.items[i])
         ELSE IF IsPyDict(debug.data)
         THEN \E e \in ToSet(debug.data.entries) :
                 /\ IsPyList(e.v)
                 /\ \E v \in ToSet(e.v.items) :
                       IsPyDict(v) /\ HasKey(v, "value") /\ ~IsPyStr(GetKey(v, "value"))
         ELSE FALSE
    ELSE IF debug.type = "candidates"
    THEN /\ IsPyDict(debug.data) /\ HasKey(debug.data, "results")
         /\ LET r == GetKey(debug.data, "results")
            IN  \/ ~IsPyDict(r)    \* .items() of a list or a string
                \/ \E e \in ToSet(r.entries) :
                      IsPyList(e.v) /\ \E v \in ToSet(e.v.items) : CandidateRaises(v)
    ELSE FALSE

\* concepts_evolution['context'] (line 282): the results of the last
\* context record that has them, {} when there is none.
ContextData(debug_sequence) ==
    LET c == SelectSeq(debug_sequence,
                 LAMBDA x : x.type = "context" /\ IsPyDict(x.data)
                            /\ HasKey(x.data, "results"))
    IN  IF c = <<>> THEN PyDict(<<>>) ELSE GetKey(c[Len(c)].data, "results")

\* Whether the summaries of lines 391-476 raise: .keys() of a context that
\* is no dict, or the sum of scores that are no numbers (a decoded score is
\* a string, a list or a dict here), in the last candidates record.
SummaryRaises(debug_sequence) ==
    LET context_data == ContextData(debug_sequence)
        c == SelectSeq(debug_sequence, LAMBDA x : x.type = "candidates")
        last == c[Len(c)]
    IN  \/ PyTruthy(context_data) /\ ~IsPyDict(context_data)
        \/ /\ c # <<>> /\ IsPyDict(last.data) /\ HasKey(last.data, "results")
           /\ \E e \in ToSet(GetKey(last.data, "results").entries) :
                 /\ IsPyList(e.v)
                 /\ \E v \in ToSet(e.v.items) :
                       /\ IsPyDict(v) /\ HasKey(v, "name") /\ HasKey(v, "score")
                       /\ PyTruthy(GetKey(v, "name"))

\* The metadata concepts analyze_concept_evolution keeps: those of the
\* last metadata record of the sequence (line 276).
EvolutionConcept(item) ==
    IF IsPyStr(item) /\ Len(item.parts) = 2
    THEN [category |-> Strip(item.parts[1]), value |-> Strip(item.parts[2])]
    ELSE IF IsPyDict(item) /\ HasKey(item, "category") /\ HasKey(item, "value")
    THEN [category |-> Strip(StrAtoms(GetKey(item, "category").parts)),
          value |-> Strip(StrAtoms(GetKey(item, "value").parts))]
    ELSE [category |-> <<"uncategorized">>,
          value |-> IF IsPyStr(item) THEN Strip(StrAtoms(item.parts))
                    ELSE <<"<repr>">>]

RECURSIVE DictValueConcepts(_)
DictValueConcepts(entries) ==
    IF entries = <<>> THEN <<>>
    ELSE LET e == Head(entries)
             vals == IF IsPyList(e.v)
                     THEN SelectSeq(e.v.items,
                              LAMBDA v : IsPyStr(v) \/ (IsPyDict(v) /\ HasKey(v, "value")))
                     ELSE <<>>
         IN  [i \in 1..Len(vals) |->
                [category |-> Strip(StrAtoms(e.k)),
                 value |-> Strip(StrAtoms((IF IsPyStr(vals[i]) THEN vals[i]
                                           ELSE GetKey(vals[i], "value")).parts))]]
             \o DictValueConcepts(Tail(entries))

MetadataConcepts(debug) ==
    IF IsPyList(debug.data)
    THEN [i \in 1..Len(debug.data.items) |-> EvolutionConcept(debug.data.items[i])]
    ELSE IF IsPyDict(debug.data) THEN DictValueConcepts(debug.data.entries)
    ELSE <<>>

\* analyze_conversation_debug (lines 368-478): the error dict, an
\* exception, or the analysis.
AnalyzeConversationDebug(d, conversation_id) ==
    LET debug_sequence == ConversationDebugSequence(d, conversation_id)
        metadata == SelectSeq(debug_sequence, LAMBDA x : x.type = "metadata")
        r == IF conversation_id >= 0 /\ conversation_id < Len(d.conversations)
             THEN FirstOfType(d.conversations[conversation_id + 1], "user_request")
             ELSE 0
    IN  IF debug_sequence = <<>>
        THEN [op |-> "analyze_conversation_debug", outcome |-> "error",
              conversation_id |-> conversation_id]
        ELSE IF \/ \E i \in 1..Len(debug_sequence) : EvolutionRaises(debug_sequence[i])
                \/ SummaryRaises(debug_sequence)
        THEN [op |-> "analyze_conversation_debug", outcome |-> "raise",
              conversation_id |-> conversation_id]
        ELSE [op |-> "analyze_conversation_debug", outcome |-> "analysis",
              conversation_id |-> conversation_id,
              request |-> IF r = 0 THEN None
                          ELSE Str(d.conversations[conversation_id + 1][r].content),
              debug_count |-> Len(debug_sequence),
              metadata |-> IF metadata = <<>> THEN <<>>
                           ELSE MetadataConcepts(metadata[Len(metadata)])]

\* The basic_stats of generate_global_insights (lines 485-500) and its
\* three top-10 distributions.
GenerateGlobalInsights(d) ==
    [op |-> "generate_global_insights",
     conversation_count |-> Len(d.conversations),
     debug_message_count |-> Len(d.debug_messages),
     unique_categories |-> Len(d.category_counts),
     unique_concepts |-> Len(d.concept_counts),
     unique_restaurants |-> Len(d.restaurant_counts),
     category_count |-> CounterTotal(d.category_counts),
     concept_count |-> CounterTotal(d.concept_counts),
     restaurant_count |-> CounterTotal(d.restaurant_counts),
     association_count |->
         SumSeq([i \in 1..Len(d.category_restaurant_map) |->
                    Len(d.category_restaurant_map[i].v)]),
     categories |-> MostCommon(d.category_counts, 10),
     concepts |-> MostCommon(d.concept_counts, 10),
     restaurants |-> MostCommon(d.restaurant_counts, 10)]

\* Counter.get(key, default)
CounterGet(c, k, default) == IF DictHas(c, k) THEN DictGet(c, k) ELSE default

\* min(size, 30), the size being kept as twice its value (a concept's
\* size is 5 + 0.5 * count).
CappedSize(twice) == Min(twice, 60)

\* A node of the concept network for the response (lines 577-593).
ConceptNode(d, node, node_type) ==
    [id |-> node, type |-> node_type,
     twice_size |->
         CappedSize(IF node_type = "category"
                    THEN 2 * (10 + CounterGet(d.category_counts, node, 0))
                    ELSE IF node_type = "concept"
                    THEN 10 + CounterGet(d.concept_counts, node, 0)
                    ELSE 10),
     count |-> CounterGet(d.concept_counts, node,
                          CounterGet(d.category_counts, node, 0))]

\* A node of the restaurant network for the response (lines 599-615).
RestaurantNode(d, node, node_type) ==
    [id |-> node, type |-> node_type,
     twice_size |->
         CappedSize(IF node_type = "category" THEN 20
                    ELSE IF node_type = "restaurant"
                    THEN 2 * (5 + CounterGet(d.restaurant_counts, node, 0))
                    ELSE 10),
     count |-> CounterGet(d.restaurant_counts, node, 0)]

\* The edges of lines 621-633: those of a top restaurant or of a category.
ShownEdges(g, top_restaurants) ==
    SelectSeq(g.edges,
        LAMBDA e : \/ e.u \in top_restaurants \/ e.v \in top_restaurants
                   \/ DictGet(g.nodes, e.u) = "category"
                   \/ DictGet(g.nodes, e.v) = "category")

RestaurantEdges(shown) ==
    [i \in 1..Len(shown) |->
        [source |-> shown[i].u, target |-> shown[i].v, weight |-> shown[i].weight]]

\* generate_network_data (lines 573-644).
GenerateNetworkData(d) ==
    [op |-> "generate_network_data",
     concept_network |->
         [nodes |-> [i \in 1..Len(d.concept_network.nodes) |->
                        ConceptNode(d, d.concept_network.nodes[i].k,
                                    d.concept_network.nodes[i].v)],
          edges |-> [i \in 1..Len(d.concept_network.edges) |->
                        [source |-> d.concept_network.edges[i].u,
                         target |-> d.concept_network.edges[i].v]]],
     restaurant_network |->
         [nodes |-> [i \in 1..Len(d.restaurant_network.nodes) |->
                        RestaurantNode(d, d.restaurant_network.nodes[i].k,
                                       d.restaurant_network.nodes[i].v)],
          edges |-> RestaurantEdges(
                        ShownEdges(d.restaurant_network,
                            {e.k : e \in ToSet(MostCommon(d.restaurant_counts, 30))}))]]

\* sorted(..., key=count, reverse=True): stable, largest count first.
RECURSIVE SortByCount(_)
SortByCount(s) ==
    IF s = <<>> THEN <<>>
    ELSE LET i == CHOOSE i \in 1..Len(s) :
                    \A k \in 1..Len(s) :
                        s[k].count < s[i].count \/ (s[k].count = s[i].count /\ i <= k)
         IN  <<s[i]>> \o SortByCount(RemoveAt(s, i))

\* get_cross_recommendations_insights (lines 646-684).
GetCrossRecommendationsInsights(d) ==
    LET cr == SelectSeq(d.concept_restaurant_map, LAMBDA e : e.v # <<>>)
        concept_assocs ==
            [i \in 1..Len(cr) |->
                [category |-> cr[i].k[1], concept |-> cr[i].k[2],
                 restaurant |-> MostCommon(cr[i].v, 1)[1].k,
                 count |-> MostCommon(cr[i].v, 1)[1].v]]
        sorted == SortByCount(concept_assocs)
        cat == SelectSeq(d.category_restaurant_map, LAMBDA e : e.v # <<>>)
    IN  [op |-> "get_cross_recommendations_insights",
         concept_restaurant_associations |-> SubSeq(sorted, 1, Min(20, Len(sorted))),
         category_restaurant_associations |->
             [i \in 1..Len(cat) |->
                [category |-> cat[i].k,
                 top_restaurants |->
                     LET top_3 == MostCommon(cat[i].v, 3)
                     IN  [j \in 1..Len(top_3) |->
                            [name |-> top_3[j].k, count |-> top_3[j].v]]]]]

-----------------------------------------------------------------------------
(* Inputs: restaurant names                                                 *)

NamePool ==
    { <<"Parigi">>, <<"parigi">>, <<"", "Parigi">>, <<"Bistrot", "Parigi">>,
      <<"The", "Parigi">>, <<"Parigi", "Bar">>, <<"The", "Bar">>,
      <<"Osteria">>, <<"Osteria", "Francescana">>,
      <<"Osteria", "Francescana", "Restaurant">>,
      <<"Francescana", "Osteria">>, <<"Il", "Ristorante">>,
      <<"Trattoria", "Bella">>, <<"Bella", "Trattoria", "">> }

-----------------------------------------------------------------------------
(* State and operations                                                     *)

NoRet == [op |-> "none"]

\* No upload_chat request is in flight.
NoUploads == [alias |-> FALSE, requests |-> <<>>]

FreshParser ==
    /\ persona_analyzer = None
    /\ sheet_restaurants = <<>>
    /\ conversations = <<>>
    /\ current_conversation = <<>>
    /\ debug_data = <<>>

Last(s) == s[Len(s)]

\* parser.load_personas(csv_path) (lines 481-484).
LoadPersonas ==
    /\ persona_analyzer' = LoadPersonasFromCsv(csv)
    /\ ret' = [op |-> "load_personas",
               result |-> persona_analyzer'.personas # <<>>]
    /\ UNCHANGED <<inputVars, uploads, sheet_restaurants, conversations,
                   current_conversation, debug_data, da>>

\* parser.extract_sheet_restaurants(file) (lines 849-892).
ExtractSheets ==
    /\ sheet_restaurants' = ExtractSheetRestaurants(args.file)
    /\ ret' = [op |-> "extract_sheet_restaurants", result |-> sheet_restaurants']
    /\ UNCHANGED <<inputVars, uploads, persona_analyzer, conversations,
                   current_conversation, debug_data, da>>

\* parser.parse_whatsapp_chat(chat_text) (lines 486-556), the trailing
\* analyze_personas included.  The lists are new objects, so the analyzer
\* no longer shares the parser's list; the last conversation and
\* current_conversation are one object.
ParseWhatsappChat ==
    LET st == ParseConversations(chat_text)
        an == AnalyzePersonasOn(persona_analyzer, sheet_restaurants, st.conversations)
    IN  /\ conversations' = IF st.raised THEN st.conversations ELSE an.conversations
        /\ current_conversation' =
               IF st.raised THEN st.current_conversation
               ELSE IF an.conversations = <<>> THEN <<>>
               ELSE Last(an.conversations)
        /\ debug_data' = st.debug_data
        /\ da' = [da EXCEPT !.aliased = FALSE]
        /\ ret' = [op |-> "parse_whatsapp_chat",
                   raised |-> st.raised \/ an.raised,
                   cause |-> IF st.raised THEN "strptime"
                             ELSE IF an.raised THEN "analyze_personas"
                             ELSE "none"]
        /\ UNCHANGED <<inputVars, uploads, persona_analyzer, sheet_restaurants>>

\* parser.analyze_personas() (lines 611-650).  The message dicts it
\* annotates are shared with current_conversation and with an analyzer
\* that was loaded with this list.
AnalyzePersonas ==
    LET an == AnalyzePersonasOn(persona_analyzer, sheet_restaurants, conversations)
        shared == conversations # <<>> /\ current_conversation = Last(conversations)
    IN  /\ conversations' = an.conversations
        /\ current_conversation' =
               IF shared THEN Last(an.conversations) ELSE current_conversation
        /\ da' = IF da.aliased THEN [da EXCEPT !.conversations = an.conversations]
                 ELSE da
        /\ ret' = [op |-> "analyze_personas", raised |-> an.raised]
        /\ UNCHANGED <<inputVars, uploads, persona_analyzer, sheet_restaurants, debug_data>>

\* parser.extract_restaurant_recommendations() (lines 756-847).
ExtractRecommendations ==
    /\ ret' = [op |-> "extract_restaurant_recommendations",
               result |-> ExtractRestaurantRecommendations(
                              persona_analyzer, sheet_restaurants, conversations)]
    /\ UNCHANGED <<inputVars, uploads, parserVars, da>>

\* parser.generate_metadata_network() (lines 894-912).
MetadataNetwork ==
    /\ ret' = [op |-> "generate_metadata_network",
               result |-> GenerateMetadataNetwork(debug_data)]
    /\ UNCHANGED <<inputVars, uploads, parserVars, da>>

\* debug_analyzer.load_conversations(parser.conversations) (line 1161).
LoadConversations ==
    /\ da' = LoadConversationsInto(da, conversations)
    /\ ret' = [op |-> "load_conversations", raised |-> da'.raised]
    /\ UNCHANGED <<inputVars, uploads, parserVars>>

\* debug_analyzer.generate_global_insights() (lines 480-571).
GlobalInsights ==
    /\ ret' = GenerateGlobalInsights(da)
    /\ UNCHANGED <<inputVars, uploads, parserVars, da>>

\* A bug that consumes the restaurant counter while it ranks it.
NetworkDataConsuming ==
    /\ ret' = GenerateNetworkData(da)
    /\ da' = [da EXCEPT !.restaurant_counts = <<>>]
    /\ UNCHANGED <<inputVars, uploads, parserVars>>

\* debug_analyzer.generate_network_data() (lines 573-644).
NetworkData ==
    /\ ret' = GenerateNetworkData(da)
    /\ UNCHANGED <<inputVars, uploads, parserVars, da>>

\* debug_analyzer.get_cross_recommendations_insights() (lines 646-684).
CrossRecommendations ==
    /\ ret' = GetCrossRecommendationsInsights(da)
    /\ UNCHANGED <<inputVars, uploads, parserVars, da>>

-----------------------------------------------------------------------------
(* Specification SpecSame: _is_same_restaurant called on two names          *)

InitSame ==
    /\ chat_text = <<>>
    /\ csv = <<>>
    /\ args \in NamePool \X NamePool
    /\ FreshParser
    /\ da = NewDebugAnalyzer
    /\ uploads = NoUploads
    /\ ret = NoRet

CallIsSameRestaurant ==
    /\ ret.op = "none"
    /\ ret' = [op |-> "_is_same_restaurant",
               ab |-> IsSameRestaurant(args[1], args[2]),
               ba |-> IsSameRestaurant(args[2], args[1]),
               aa |-> IsSameRestaurant(args[1], args[1])]
    /\ UNCHANGED <<inputVars, uploads, parserVars, da>>

NextSame == CallIsSameRestaurant

SpecSame == InitSame /\ [][NextSame]_vars

\* C5: _is_same_restaurant is reflexive and symmetric: every name is
\* equivalent to itself, and a is equivalent to b exactly when b is
\* equivalent to a, names of equal length included.
C5_ReflexiveSymmetric ==
    ret.op = "_is_same_restaurant" => (ret.aa /\ (ret.ab <=> ret.ba))

\* A pair of different names of equal length that are equivalent, compared
\* in both argument orders.
C5_Witness ==
    /\ ret.op = "_is_same_restaurant"
    /\ args[1] # args[2]
    /\ StrLen(Strip(Lower(args[1]))) = StrLen(Strip(Lower(args[2])))
    /\ Strip(Lower(args[1])) # Strip(Lower(args[2]))
    /\ ret.ab /\ ret.ba

\* A name after case-folding and trimming, and the words it keeps when the
\* stop words are removed.
Folded(name) == Strip(Lower(name))

Kept(folded) ==
    {w \in ToSet(Split(folded)) :
        w \notin {"the", "restaurant", "café", "cafe", "bar", "grill", "bistro",
                  "kitchen"}}

\* The name l is more than 1.5 times as long as the name s, and s is one
\* of the words of l, which has several.
OneWordOf(s, l) ==
    /\ 10 * StrLen(l) > 15 * StrLen(s)
    /\ Len(Split(l)) > 1
    /\ Len(s) = 1
    /\ \E k \in 1..Len(Split(l)) : Split(l)[k] = s[1]

Equivalent(a, b) ==
    /\ Kept(a) # {}
    /\ Kept(b) # {}
    /\ \/ 100 * Cardinality(Kept(a) \cap Kept(b)) >= 80 * Cardinality(Kept(a))
       \/ 100 * Cardinality(Kept(a) \cap Kept(b)) >= 80 * Cardinality(Kept(b))
    /\ ~OneWordOf(a, b)
    /\ ~OneWordOf(b, a)

\* C20: two names that differ after case-folding and trimming are
\* equivalent exactly when both keep a word once the stop words are
\* removed, the words they keep share at least 80% of the size of the
\* smaller set, and the longer name is not more than 1.5 times as long as
\* the shorter while the shorter is one word of a longer of several words.
C20_EquivalentExactlyWhen ==
    (ret.op = "_is_same_restaurant" /\ Folded(args[1]) # Folded(args[2])) =>
        (ret.ab <=> Equivalent(Folded(args[1]), Folded(args[2])))

\* 'Parigi' compared with 'Bistrot Parigi': not equivalent.
C20_Witness ==
    /\ ret.op = "_is_same_restaurant"
    /\ args = << <<"Parigi">>, <<"Bistrot", "Parigi">> >>
    /\ ~ret.ab

-----------------------------------------------------------------------------
(* Inputs: timestamps, lines, persona tables                                *)

Backend == "Concierge"

\* [2024-03-05, 9:15:00 AM]
TsMorning ==
    [layout |-> "iso12", y |-> 2024, mo |-> 3, d |-> 5, h |-> 9, mi |-> 15,
     s |-> 0, ampm |-> "AM"]
\* [2024-03-05, 12:30:00 PM]
TsNoon ==
    [layout |-> "iso12", y |-> 2024, mo |-> 3, d |-> 5, h |-> 12, mi |-> 30,
     s |-> 0, ampm |-> "PM"]
\* [2024-03-05 14:00:00]: starts a message, is not in the fixed format
Ts24h ==
    [layout |-> "iso24", y |-> 2024, mo |-> 3, d |-> 5, h |-> 14, mi |-> 0,
     s |-> 0, ampm |-> ""]
\* [2024-02-30, 9:15:00 AM]: in the fixed format, not a date
TsFeb30 ==
    [layout |-> "iso12", y |-> 2024, mo |-> 2, d |-> 30, h |-> 9, mi |-> 15,
     s |-> 0, ampm |-> "AM"]
\* [05/03/2024, 09:15]: does not start a message
TsSlashes ==
    [layout |-> "other", y |-> 2024, mo |-> 3, d |-> 5, h |-> 9, mi |-> 15,
     s |-> 0, ampm |-> ""]

RomanticRequest == <<"Find", "me", "a", "romantic", "Italian", "place">>

RequestLine == HeaderLine(TsMorning, Agent, RomanticRequest)
OsteriaLine ==
    HeaderLine(TsNoon, Backend, <<"-", "Osteria", "Francescana", EnDash, "great">>)
TrattoriaLine == PlainLine(<<"-", "Trattoria", "Bella", EnDash, "cozy">>)
RistoranteLine == HeaderLine(TsNoon, Backend, <<"-", "Il", "Ristorante">>)
\* the list is not closed: ast.literal_eval raises SyntaxError
MalformedLine ==
    HeaderLine(TsMorning, Backend,
        <<DebugTag, "Metadados", "relacionados", "[", "'Cuisine -> Italian'">>)
Wait24hLine == HeaderLine(Ts24h, Backend, PleaseWait)
Feb30Line == HeaderLine(TsFeb30, Agent, <<"Sushi">>)
SlashesLine == HeaderLine(TsSlashes, Agent, <<"Sushi">>)

\* The rows of a persona table: the cells No., PERSONA, Input and the three
\* option columns.
Row(id, persona, input, options) ==
    [No |-> id, PERSONA |-> persona, Input |-> input, options |-> options]

RomanticRow ==
    Row(Str("P1"), Str(<<"Couple">>),
        Str(<<"find", "me", "a", "romantic", "italian", "place">>),
        <<Str(<<"Osteria", "Francescana">>), Str(<<"Il", "Ristorante">>), NaN>>)

\* A table whose third option column holds numbers only, so that pandas
\* reads its cells as numbers: the restaurant "1900".
NumericOptionRow ==
    Row(Str("P1"), Str(<<"Couple">>),
        Str(<<"find", "me", "a", "romantic", "italian", "place">>),
        <<Str(<<"Osteria", "Francescana">>), NaN, Num(1900)>>)

NoFile == [extension |-> ".txt", readable |-> TRUE, sheet_names |-> <<>>]

-----------------------------------------------------------------------------
(* Specification SpecSegment: parsing a transcript, with or without a       *)
(* persona table                                                            *)

\* The longest transcript, in lines.
MaxLines == 3

SegmentLines ==
    {RequestLine, OsteriaLine, TrattoriaLine, MalformedLine, Wait24hLine,
     Feb30Line, SlashesLine}

InitSegment ==
    /\ chat_text \in SeqsUpTo(SegmentLines, MaxLines)
    /\ csv \in {<<RomanticRow>>, <<NumericOptionRow>>}
    /\ args = [file |-> NoFile]
    /\ FreshParser
    /\ da = NewDebugAnalyzer
    /\ uploads = NoUploads
    /\ ret = NoRet

NextSegment == LoadPersonas \/ ParseWhatsappChat

SpecSegment == InitSegment /\ [][NextSegment]_vars

\* What identifies a message: its timestamp, sender and content.
Identity(m) == [timestamp |-> m.timestamp, sender |-> m.sender, content |-> m.content]

\* The messages extracted from the transcript, parsed and trimmed.
Extracted ==
    LET messages == Messages(chat_text)
    IN  [k \in 1..Len(messages) |->
            [timestamp |-> StrpTime(messages[k].timestamp_str).dt,
             sender |-> messages[k].sender,
             content |-> Strip(messages[k].content)]]

Parsed == ret.op = "parse_whatsapp_chat" /\ ~ret.raised

AllMessages == Flatten(conversations)

\* C1: when parse returns, the conversations hold every extracted message
\* exactly once and in transcript order: the conversation lengths sum to
\* the number of messages extracted, and the conversations laid end to end
\* are the extracted messages.
C1_SegmentationKeepsMessages ==
    Parsed =>
        /\ SumSeq([c \in 1..Len(conversations) |-> Len(conversations[c])])
               = Len(Messages(chat_text))
        /\ [k \in 1..Len(AllMessages) |-> Identity(AllMessages[k])] = Extracted

\* A parsed transcript of three messages in two conversations.
C1_Witness ==
    /\ Parsed
    /\ Len(conversations) = 2
    /\ Len(Messages(chat_text)) = 3

NoAgentMessage ==
    \A k \in 1..Len(Messages(chat_text)) : Messages(chat_text)[k].sender # Agent

OneConversationWithAll ==
    /\ Len(conversations) = 1
    /\ [k \in 1..Len(conversations[1]) |-> Identity(conversations[1][k])] = Extracted

\* C2 as stated: every transcript without an agent message parses into
\* exactly one conversation that holds all its messages.
C2_NoAgentOneConversation ==
    (Parsed /\ NoAgentMessage) => OneConversationWithAll

\* C2: every transcript that has at least one message and no agent message
\* parses into exactly one conversation that holds all its messages; a
\* transcript without any message parses into no conversation.
C2_NoAgentOneConversationIfAny ==
    (Parsed /\ NoAgentMessage) =>
        IF Messages(chat_text) = <<>> THEN conversations = <<>>
        ELSE OneConversationWithAll

\* A parsed transcript of two messages, none from the agent.
C2_Witness ==
    /\ Parsed /\ NoAgentMessage
    /\ Len(Messages(chat_text)) = 2
    /\ Len(conversations) = 1

SomeTimestampUnparseable ==
    \E k \in 1..Len(Messages(chat_text)) :
        ~StrpTime(Messages(chat_text)[k].timestamp_str).ok

\* C3: parse raises exactly when some extracted message has a timestamp
\* that is not in the fixed format; when every timestamp parses it returns.
C3_RaisesIffBadTimestamp ==
    ret.op = "parse_whatsapp_chat" => (ret.raised <=> SomeTimestampUnparseable)

\* The conversations are cut by the rule: none is empty, each but the
\* first begins with an agent message that follows a message of another
\* sender, no message inside a conversation is one, and laid end to end
\* they are the extracted messages up to the last.
CutByTheRule ==
    /\ \A c \in 1..Len(conversations) : conversations[c] # <<>>
    /\ \A c \in 2..Len(conversations) :
          /\ conversations[c][1].sender = Agent
          /\ Last(conversations[c - 1]).sender # Agent
    /\ \A c \in 1..Len(conversations) :
          \A k \in 2..Len(conversations[c]) :
              ~(/\ conversations[c][k].sender = Agent
                /\ conversations[c][k - 1].sender # Agent)
    /\ [k \in 1..Len(AllMessages) |-> Identity(AllMessages[k])] = Extracted

\* Every message carries the number of the conversation it is in.
NumberedInOrder ==
    \A c \in 1..Len(conversations) :
        \A k \in 1..Len(conversations[c]) :
            conversations[c][k].conversation_id = c - 1

\* C17: when parse returns, message i starts a conversation exactly when
\* the agent sent it and it is the first message or follows a message of
\* another sender, every other message joins the conversation of the one
\* before it, no conversation is empty, the last conversation holds the
\* final message, and the conversations are numbered from zero in the
\* order they were emitted.
C17_SegmentedAndNumbered == Parsed => (CutByTheRule /\ NumberedInOrder)

\* C26: the conversation_id of every message is the zero-based index, in
\* the list parse returns, of the conversation that holds the message: of
\* the agent message that opens the conversation and of those after it.
C26_IdIsIndexOfConversation ==
    Parsed =>
        \A c \in 1..Len(conversations) :
            /\ conversations[c][1].conversation_id = c - 1
            /\ \A k \in 2..Len(conversations[c]) :
                  conversations[c][k].conversation_id = c - 1

-----------------------------------------------------------------------------
(* Specification SpecDebug: a transcript with debug messages, parsed and    *)
(* loaded into the DebugAnalyzer                                            *)

SushiLine == HeaderLine(TsMorning, Agent, <<"Sushi">>)
MetadataLine ==
    HeaderLine(TsMorning, Backend,
        <<DebugTag, "Metadados", "relacionados",
          "[", "'Cuisine -> Italian'", ",", "'Mood -> Romantic'", "]">>)
\* an item with two separators
ThreePartLine ==
    HeaderLine(TsMorning, Backend,
        <<DebugTag, "Metadados", "relacionados",
          "[", "'Cuisine -> Italian -> Pasta'", "]">>)
CandidatesLine ==
    HeaderLine(TsMorning, Backend,
        <<DebugTag, "Restaurantes", "candidatos:",
          "{", "'results'", ":", "{", "'Cuisine'", ":",
          "[", "'0.9 -> Osteria Francescana'", "]", "}", "}">>)
\* a context whose results are a list
ContextListLine ==
    HeaderLine(TsMorning, Backend,
        <<DebugTag, "Contexto", "entendido:",
          "{", "'results'", ":", "[", "'Vegan'", "]", "}">>)

\* The longest transcript of debug messages, in lines.
MaxDebugLines == 2

DebugLines ==
    {SushiLine, MetadataLine, MalformedLine, ThreePartLine, CandidatesLine,
     ContextListLine}

\* The conversation ids asked for: one below and one above the range.
ConversationIds == (0 - 1)..MaxDebugLines

InitDebug ==
    /\ chat_text \in SeqsUpTo(DebugLines, MaxDebugLines)
    /\ csv = <<RomanticRow>>
    /\ args = [file |-> NoFile]
    /\ FreshParser
    /\ da = NewDebugAnalyzer
    /\ uploads = NoUploads
    /\ ret = NoRet

\* debug_analyzer.analyze_conversation_debug(conversation_id)
ConversationDebugAnalysis ==
    /\ \E conversation_id \in ConversationIds :
          ret' = AnalyzeConversationDebug(da, conversation_id)
    /\ UNCHANGED <<inputVars, uploads, parserVars, da>>

NextDebug ==
    \/ ParseWhatsappChat
    \/ LoadConversations
    \/ GlobalInsights
    \/ NetworkData
    \/ CrossRecommendations
    \/ ConversationDebugAnalysis

SpecDebug == InitDebug /\ [][NextDebug]_vars

\* A debug-typed message whose payload was not decoded.
Undecoded(m) == m.type = "debug" /\ m.debug_info = Absent

\* The content of a message that classifies as debug and whose payload
\* literal ast.literal_eval rejects.
UndecodableContent(content) ==
    /\ content # <<>> /\ content[1] = DebugTag
    /\ HasMarker(content, "Metadados", "relacionados")
    /\ ~LiteralEval(Replace(content, <<DebugTag, "Metadados", "relacionados">>)).ok

WithoutUndecoded(convs) ==
    [c \in 1..Len(convs) |-> SelectSeq(convs[c], LAMBDA m : ~Undecoded(m))]

Counts(insights) ==
    [debug_message_count |-> insights.debug_message_count,
     unique_categories |-> insights.unique_categories,
     unique_concepts |-> insights.unique_concepts,
     unique_restaurants |-> insights.unique_restaurants,
     category_count |-> insights.category_count,
     concept_count |-> insights.concept_count,
     restaurant_count |-> insights.restaurant_count,
     categories |-> insights.categories,
     concepts |-> insights.concepts,
     restaurants |-> insights.restaurants]

HoldsUndecoded == \E k \in 1..Len(AllMessages) : Undecoded(AllMessages[k])

\* C4: a debug message whose payload cannot be decoded does not make parse
\* raise (every timestamp of these transcripts parses, and parse never
\* raises on them); it stays in its conversation
\* with type debug and without debug_info, debug_data gets no record for
\* it, and the counts of generate_global_insights after loading the
\* conversations are those of the conversations without it.
C4_UndecodedContributesNothing ==
    /\ ret.op = "parse_whatsapp_chat" => ~ret.raised
    /\ Parsed =>
          /\ \A k \in 1..Len(AllMessages) :
                (AllMessages[k].sender # Agent
                    /\ UndecodableContent(AllMessages[k].content))
                => Undecoded(AllMessages[k])
          /\ Len(debug_data) =
                Len(SelectSeq(AllMessages, LAMBDA m : m.debug_info # Absent))
    /\ (ret.op = "generate_global_insights" /\ da.conversations = conversations)
          => Counts(ret) =
                Counts(GenerateGlobalInsights(
                    LoadConversationsInto(NewDebugAnalyzer,
                                          WithoutUndecoded(conversations))))

\* The insights of a loaded transcript that holds an undecodable debug
\* message beside a decoded one.
C4_Witness ==
    /\ ret.op = "generate_global_insights"
    /\ da.conversations = conversations
    /\ HoldsUndecoded
    /\ ret.debug_message_count = 1
    /\ ret.category_count = 2

RecordsOf(conversation_id) ==
    Len(SelectSeq(da.debug_messages,
                  LAMBDA x : x.conversation_id = conversation_id))

\* C8: analyze_conversation_debug(id) gives the not-found error exactly
\* when the analyzer holds no debug record of conversation id; otherwise it
\* returns an analysis whose debug_count is the number of those records.
C8_NotFoundIffNoRecord ==
    ret.op = "analyze_conversation_debug" =>
        IF RecordsOf(ret.conversation_id) = 0
        THEN ret.outcome = "error"
        ELSE ret.outcome = "analysis"
             /\ ret.debug_count = RecordsOf(ret.conversation_id)

ReadOnlyOps ==
    {"generate_global_insights", "generate_network_data",
     "get_cross_recommendations_insights", "analyze_conversation_debug"}

\* The last call and the next are the same call with the same argument.
SameCall ==
    /\ ret.op = ret'.op
    /\ ret.op = "analyze_conversation_debug" =>
          ret.conversation_id = ret'.conversation_id

-----------------------------------------------------------------------------
(* Specification SpecEval: personas, the reference list, the evaluation of  *)
(* recommendations and their reconciliation with the reference list         *)

\* The longest transcript of requests and recommendations, in lines.
MaxEvalLines == 3

EvalLines == {RequestLine, OsteriaLine, TrattoriaLine, RistoranteLine}

\* A second persona whose third option pandas read as a number.
NumberRow ==
    Row(Str("P2"), Str(<<"Local">>), Str(<<"cheap", "sushi">>),
        <<Str(<<"Parigi">>), NaN, Num(1900)>>)

Workbook ==
    [extension |-> ".xlsx", readable |-> TRUE,
     sheet_names |-> << <<"Sheet1">>, <<"Trattoria", "Bella">>,
                        <<"Osteria", "Francescana", "Restaurant">>,
                        <<"Bella", "Trattoria">>, <<"42">>, <<"_notes">>,
                        <<"X">> >>]

\* The persona ids evaluate_recommendations is called with; P9 is in no
\* table.
PersonaIds == {"P1", "P2", "P9"}

InitEval ==
    /\ chat_text \in SeqsUpTo(EvalLines, MaxEvalLines)
    /\ csv = <<RomanticRow, NumberRow>>
    /\ args = [file |-> Workbook]
    /\ FreshParser
    /\ da = NewDebugAnalyzer
    /\ uploads = NoUploads
    /\ ret = NoRet

\* persona_analyzer.evaluate_recommendations(conversation, persona_id) on a
\* parsed conversation.
Evaluate ==
    /\ persona_analyzer # None
    /\ \E c \in 1..Len(conversations), id \in PersonaIds :
          ret' = [op |-> "evaluate_recommendations",
                  result |-> EvaluateRecommendations(persona_analyzer,
                                 conversations[c], Str(id))]
    /\ UNCHANGED <<inputVars, uploads, parserVars, da>>

NextEval ==
    \/ LoadPersonas
    \/ ExtractSheets
    \/ ParseWhatsappChat
    \/ AnalyzePersonas
    \/ Evaluate
    \/ ExtractRecommendations

SpecEval == InitEval /\ [][NextEval]_vars

\* Equality of two ratios.
SameRatio(r, n, d) == r.num * d = n * r.den

\* The expected items that have an equivalent actual item.
Matches(expected, actual) ==
    Cardinality({i \in 1..Len(expected) :
                    \E j \in 1..Len(actual) :
                        IsSameRestaurant(expected[i].v, actual[j])})

Returned == ret.op = "evaluate_recommendations" /\ ret.result # Raised

ScenarioExpected == <<Str(<<"Osteria", "Francescana">>), Str(<<"Il", "Ristorante">>)>>
ScenarioActual == << <<"Osteria", "Francescana">>, <<"Trattoria", "Bella">> >>

\* C6: an evaluation returned for a matched persona has
\* accuracy = recall = matches/|expected|, precision = matches/|actual| (0
\* when actual is empty), extra_count = max(0, |actual| - matches) and
\* missing_count = |expected| - matches, matches being the number of
\* expected items with an equivalent actual item; expected [Osteria
\* Francescana, Il Ristorante] against actual [Osteria Francescana,
\* Trattoria Bella] gives accuracy 1/2, precision 1/2, missing_count 1.
C6_EvaluationMetrics ==
    (Returned /\ ret.result.matched) =>
        LET e == ret.result
            expected == e.expected_recommendations
            actual == e.actual_recommendations
            matches == Matches(expected, actual)
        IN  /\ expected # <<>> => SameRatio(e.accuracy, matches, Len(expected))
            /\ expected # <<>> => SameRatio(e.recall, matches, Len(expected))
            /\ expected = <<>> => e.accuracy.num = 0 /\ e.recall.num = 0
            /\ actual # <<>> => SameRatio(e.precision, matches, Len(actual))
            /\ actual = <<>> => e.precision.num = 0
            /\ e.extra_count = IF Len(actual) > matches THEN Len(actual) - matches
                               ELSE 0
            /\ e.missing_count = Len(expected) - matches
            /\ (expected = ScenarioExpected /\ actual = ScenarioActual) =>
                  /\ SameRatio(e.accuracy, 1, 2)
                  /\ SameRatio(e.precision, 1, 2)
                  /\ e.missing_count = 1

\* The evaluation of the scenario.
C6_Witness ==
    /\ Returned /\ ret.result.matched
    /\ ret.result.expected_recommendations = ScenarioExpected
    /\ ret.result.actual_recommendations = ScenarioActual
    /\ ret.result.missing_count = 1

\* An evaluation where the second expected item is found first.
C6_WitnessOtherRank ==
    /\ Returned /\ ret.result.matched
    /\ ret.result.expected_recommendations = ScenarioExpected
    /\ ret.result.actual_recommendations = << <<"Il", "Ristorante">> >>

\* The persona annotations of the messages.
Annotations(convs) ==
    [c \in 1..Len(convs) |->
        [k \in 1..Len(convs[c]) |->
            [persona_id |-> convs[c][k].persona_id,
             persona_description |-> convs[c][k].persona_description,
             recommendation_evaluation |-> convs[c][k].recommendation_evaluation]]]

\* The last call analysed the conversations as they are: analyze_personas
\* itself, or a parse that ran it.
JustAnalyzed ==
    \/ ret.op = "analyze_personas"
    \/ ret.op = "parse_whatsapp_chat" /\ persona_analyzer # None
          /\ ret.cause # "strptime"

\* C7: analyze_personas is idempotent: a call that directly follows an
\* analysis of the same conversations, the persona table and the reference
\* list being the same, leaves every message's persona id, persona
\* description and recommendation evaluation as they were.
C7_AnalyzePersonasIdempotent ==
    [][(JustAnalyzed /\ ret'.op = "analyze_personas")
          => Annotations(conversations') = Annotations(conversations)]_vars

\* An analysed conversation with a persona, an evaluation and two
\* recommendation messages.
C7_Witness ==
    /\ ret.op = "analyze_personas"
    /\ \E c \in 1..Len(conversations) :
          /\ Cardinality({k \in 1..Len(conversations[c]) :
                conversations[c][k].type = "recommendation"}) = 2
          /\ \E k \in 1..Len(conversations[c]) :
                /\ conversations[c][k].persona_id = Str("P1")
                /\ conversations[c][k].recommendation_evaluation # Absent

Equivalents(name) ==
    {n \in ToSet(sheet_restaurants) : IsSameRestaurant(name, n)}
Identicals(name) ==
    {n \in ToSet(sheet_restaurants) : Strip(Lower(name)) = Strip(Lower(n))}

\* C9: with a reference list that is not empty,
\* extract_restaurant_recommendations gives every extracted name a
\* reference name equivalent to it when there is one, a case-insensitively
\* identical one when there is one, and no reference name only when none
\* is equivalent.
C9_ReconciledWhenEquivalent ==
    (/\ ret.op = "extract_restaurant_recommendations"
     /\ ret.result # Raised /\ sheet_restaurants # <<>>) =>
        \A n \in 1..Len(ret.result.recommendations) :
            LET matched == ret.result.recommendations[n].matched_restaurants
            IN  \A k \in 1..Len(matched) :
                    LET name == matched[k].extracted.v
                    IN  IF Equivalents(name) = {}
                        THEN matched[k].sheet_match = None
                        ELSE /\ matched[k].sheet_match # None
                             /\ matched[k].sheet_match.v \in Equivalents(name)
                             /\ Identicals(name) # {} =>
                                   matched[k].sheet_match.v \in Identicals(name)

\* The messages of the conversation that carry an evaluation.
Evaluated(conversation) ==
    {k \in 1..Len(conversation) :
        conversation[k].recommendation_evaluation # Absent}

\* C12: in every state reached by load_personas, parse and
\* analyze_personas calls (and the read-only calls between them), a message
\* carries a recommendation evaluation only if every message of its
\* conversation carries a persona id, the evaluation sits on a message of
\* type recommendation, and at most one message of a conversation carries
\* one.
C12_EvaluationOnlyWithPersona ==
    \A c \in 1..Len(conversations) :
        /\ \A k \in Evaluated(conversations[c]) :
              /\ conversations[c][k].type = "recommendation"
              /\ \A j \in 1..Len(conversations[c]) :
                    /\ conversations[c][j].persona_id # Absent
                    /\ conversations[c][j].persona_id # None
        /\ Cardinality(Evaluated(conversations[c])) <= 1

\* A conversation of a request and two recommendation messages, analysed
\* twice, whose first recommendation message alone carries the evaluation.
C12_Witness ==
    /\ ret.op = "analyze_personas" /\ ~ret.raised
    /\ \E c \in 1..Len(conversations) :
          /\ Len(conversations[c]) = 3
          /\ Evaluated(conversations[c]) = {2}
          /\ conversations[c][3].type = "recommendation"
          /\ conversations[c][3].persona_id = Str("P1")

-----------------------------------------------------------------------------
(* Specification SpecCross: conversations with metadata and                 *)
(* recommendations, loaded into the DebugAnalyzer and reported              *)

\* two concepts of one category
TwoCuisinesLine ==
    HeaderLine(TsMorning, Backend,
        <<DebugTag, "Metadados", "relacionados",
          "[", "'Cuisine -> Italian'", ",", "'Cuisine -> Sushi'", "]">>)
\* four restaurants, one of them listed twice
ManyNamesLine ==
    HeaderLine(TsNoon, Backend,
        <<"-", "Osteria", "Francescana", "-", "Trattoria", "Bella.",
          "-", "Osteria", "Francescana", "-", "Il", "Ristorante",
          "-", "Parigi">>)

\* The most conversations of a transcript.
MaxConversations == 2

MetadataParts == {<<>>, <<MetadataLine>>, <<TwoCuisinesLine>>, <<ThreePartLine>>}
RecommendationParts == {<<>>, <<RistoranteLine, OsteriaLine>>, <<ManyNamesLine>>}

\* A conversation: the request, then its metadata, then its
\* recommendation messages.
CrossConversations ==
    {<<SushiLine>> \o m \o r : m \in MetadataParts, r \in RecommendationParts}

InitCross ==
    /\ chat_text \in {Flatten(t) : t \in SeqsUpTo(CrossConversations, MaxConversations)}
    /\ csv = <<RomanticRow>>
    /\ args = [file |-> NoFile]
    /\ FreshParser
    /\ da = NewDebugAnalyzer
    /\ uploads = NoUploads
    /\ ret = NoRet

NextCross ==
    \/ ParseWhatsappChat
    \/ LoadConversations
    \/ CrossRecommendations
    \/ MetadataNetwork

SpecCross == InitCross /\ [][NextCross]_vars

Categories == {<<"Cuisine">>, <<"Mood">>}

\* How many entries of the conversation's metadata name the category.
MetadataEntries(conversation, category) ==
    SumSeq([k \in 1..Len(conversation) |->
        LET m == conversation[k]
        IN  IF /\ m.type = "debug" /\ m.debug_info # Absent
               /\ m.debug_info.type = "metadata" /\ IsPyList(m.debug_info.data)
            THEN Cardinality({i \in 1..Len(m.debug_info.data.items) :
                     LET item == m.debug_info.data.items[i]
                     IN  /\ IsPyStr(item) /\ Len(item.parts) = 2
                         /\ Strip(item.parts[1]) = category})
            ELSE 0])

\* How many times the conversation's recommendation lists the restaurant.
Listings(conversation, restaurant) ==
    Cardinality({i \in 1..Len(RecommendedIn(conversation)) :
                    RecommendedIn(conversation)[i] = restaurant})

Listed == UNION {ToSet(RecommendedIn(da.conversations[c])) :
                    c \in 1..Len(da.conversations)}

Tally(category, restaurant) ==
    SumSeq([c \in 1..Len(da.conversations) |->
        MetadataEntries(da.conversations[c], category)
            * Listings(da.conversations[c], restaurant)])

\* The restaurants and counts reported for the category.
Reported(category) ==
    LET a == ret.category_restaurant_associations
        idx == {i \in 1..Len(a) : a[i].category = category}
    IN  IF idx = {} THEN <<>> ELSE a[CHOOSE i \in idx : TRUE].top_restaurants

ReportedSum(category) ==
    SumSeq([j \in 1..Len(Reported(category)) |-> Reported(category)[j].count])

DistinctSum(category) ==
    SumSeq([c \in 1..Len(da.conversations) |->
        IF MetadataEntries(da.conversations[c], category) > 0
        THEN Cardinality(ToSet(RecommendedIn(da.conversations[c])))
        ELSE 0])

CrossReport == ret.op = "get_cross_recommendations_insights"

\* C10 as stated: for every category, the reported restaurant counts sum
\* to the total, over the conversations whose metadata mentions the
\* category, of the number of distinct restaurants recommended in the
\* conversation.
C10_CountsSumToDistinct ==
    CrossReport => \A category \in Categories :
                       ReportedSum(category) = DistinctSum(category)

\* The reported restaurants of the category are the three with the largest
\* tallies, each with its tally.
TopThree(category) ==
    LET top == Reported(category)
        credited == {r \in Listed : Tally(category, r) > 0}
        names == {top[j].name : j \in 1..Len(top)}
    IN  /\ Len(top) = Min(3, Cardinality(credited))
        /\ Cardinality(names) = Len(top)
        /\ \A j \in 1..Len(top) :
              /\ top[j].name \in credited
              /\ top[j].count = Tally(category, top[j].name)
              /\ \A k \in (j + 1)..Len(top) : top[j].count >= top[k].count
              /\ \A r \in credited \ names : Tally(category, r) <= top[j].count
        /\ Cardinality({i \in 1..Len(ret.category_restaurant_associations) :
              ret.category_restaurant_associations[i].category = category}) <= 1

CategoryReport(d) == GetCrossRecommendationsInsights(d).category_restaurant_associations

\* C10: after a load_conversations that returned, the restaurants reported
\* for a category are the (at most three) with the largest tallies, the
\* tally of a restaurant being the sum over the loaded conversations of
\* (entries of the conversation's metadata that name the category, repeats
\* and different concepts each counted) x (times the conversation's first
\* recommendation message with names lists the restaurant); a
\* load_conversations that raises leaves the report of the load before it.
C10_CountsAreTopTallies ==
    /\ []((CrossReport /\ ~da.raised) =>
             \A category \in Categories : TopThree(category))
    /\ [][(ret'.op = "load_conversations" /\ ret'.raised)
             => CategoryReport(da') = CategoryReport(da)]_vars

\* A report over two conversations of the same category, where the counts
\* exceed the number of distinct restaurants.
C10_Witness ==
    /\ CrossReport /\ ~da.raised
    /\ Len(da.conversations) = 2
    /\ \A c \in 1..2 : MetadataEntries(da.conversations[c], <<"Cuisine">>) > 0
    /\ ReportedSum(<<"Cuisine">>) > DistinctSum(<<"Cuisine">>)
    /\ DistinctSum(<<"Cuisine">>) > 0

\* The metadata entries of the loaded conversations that name the
\* category, and those of the parser's records.
LoadedEntries(category) ==
    SumSeq([c \in 1..Len(da.conversations) |->
               MetadataEntries(da.conversations[c], category)])

RecordEntries(category) ==
    SumSeq([c \in 1..Len(conversations) |->
               MetadataEntries(conversations[c], category)])

\* C16: a decoded metadata entry that has not the expected shape, such as
\* a string with two ' -> ' separators, is skipped: load_conversations and
\* generate_metadata_network return, the first having counted every
\* well-shaped entry of every conversation, the second having a node for
\* every category of a well-shaped entry.
C16_MisshapedEntriesSkipped ==
    /\ ret.op = "load_conversations" =>
          /\ ~ret.raised
          /\ \A category \in Categories :
                CounterGet(da.category_counts, category, 0) = LoadedEntries(category)
    /\ (ret.op = "generate_metadata_network" /\ Len(debug_data) > 0) =>
          /\ ret.result # Raised
          /\ \A category \in Categories :
                RecordEntries(category) > 0 =>
                    \E n \in 1..Len(ret.result.nodes) :
                        /\ ret.result.nodes[n].id = category
                        /\ ret.result.nodes[n].type = "category"

-----------------------------------------------------------------------------
(* Specification SpecRecords: transcripts with decoded debug messages and   *)
(* a timestamp that is no date, parsed and loaded into the DebugAnalyzer    *)

\* The longest transcript, in lines.
MaxRecordLines == 3

RecordLines == {SushiLine, MetadataLine, CandidatesLine, OsteriaLine, Feb30Line}

InitRecords ==
    /\ chat_text \in SeqsUpTo(RecordLines, MaxRecordLines)
    /\ csv = <<RomanticRow>>
    /\ args = [file |-> NoFile]
    /\ FreshParser
    /\ da = NewDebugAnalyzer
    /\ uploads = NoUploads
    /\ ret = NoRet

NextRecords == ParseWhatsappChat \/ LoadConversations

SpecRecords == InitRecords /\ [][NextRecords]_vars

\* The record of debug_data is the record of a decoded debug message of
\* the conversation at index conversation_id of the parser's list.
ParserRecordRefers(rec) ==
    /\ rec.conversation_id + 1 \in 1..Len(conversations)
    /\ \E k \in 1..Len(conversations[rec.conversation_id + 1]) :
          LET m == conversations[rec.conversation_id + 1][k]
          IN  /\ m.type = "debug" /\ m.debug_info # Absent
              /\ m.timestamp = rec.timestamp
              /\ m.debug_info.type = rec.debug_type
              /\ m.debug_info.data = rec.data

\* The record of debug_messages is the record of the message at message_idx
\* of the conversation at index conversation_id of the analyzer's list.
MinerRecordRefers(rec) ==
    /\ rec.conversation_id + 1 \in 1..Len(da.conversations)
    /\ rec.message_idx + 1 \in 1..Len(da.conversations[rec.conversation_id + 1])
    /\ LET m == da.conversations[rec.conversation_id + 1][rec.message_idx + 1]
       IN  /\ m.type = "debug" /\ m.debug_info # Absent
           /\ m.timestamp = rec.timestamp
           /\ m.debug_info.type = rec.type
           /\ m.debug_info.data = rec.data

\* C11: in every state, every record of the parser's debug_data and every
\* record of the analyzer's debug_messages refers to a message that is in
\* the conversation list, has type debug, and lies in the conversation
\* whose index is the record's conversation_id.
C11_RecordsReferToMessages ==
    /\ \A r \in 1..Len(debug_data) : ParserRecordRefers(debug_data[r])
    /\ \A r \in 1..Len(da.debug_messages) : MinerRecordRefers(da.debug_messages[r])

\* C30: when parse raises on a transcript, the conversation list and the
\* debug records of the parser hold nothing of that transcript afterwards.
C30_FailedParseLeavesNothing ==
    (ret.op = "parse_whatsapp_chat" /\ ret.raised) =>
        (conversations = <<>> /\ debug_data = <<>>)

-----------------------------------------------------------------------------
(* Specification SpecUploads: two upload_chat requests handled by two       *)
(* threads of the server.  Both call parse_whatsapp_chat on the one module  *)
(* level parser (line 980); a thread may be preempted between any two       *)
(* iterations of the message loop, and the schedules modelled are those     *)
(* that preempt it nowhere else.                                            *)

\* The longest uploaded transcript, in lines.
MaxUploadLines == 2

\* The lines of the first and of the second upload: no message of one is a
\* message of the other.
FirstUploadLines == {RequestLine, OsteriaLine, MetadataLine}
SecondUploadLines == {SushiLine, RistoranteLine, CandidatesLine}

Requests == 1..2

\* The locals of upload_chat and of the parse_whatsapp_chat it calls.
NewRequest(text) ==
    [chat_text |-> text, pc |-> "received", messages |-> <<>>, i |-> 0,
     conversation_id |-> 0, previous_sender |-> "None",
     conversations |-> <<>>, records |-> <<>>]

InitUploads ==
    /\ chat_text = <<>>
    /\ csv = <<>>
    /\ args = [file |-> NoFile]
    /\ FreshParser
    /\ da = NewDebugAnalyzer
    /\ \E first \in SeqsUpTo(FirstUploadLines, MaxUploadLines),
          second \in SeqsUpTo(SecondUploadLines, MaxUploadLines) :
          uploads = [alias |-> FALSE,
                     requests |-> <<NewRequest(first), NewRequest(second)>>]
    /\ ret = NoRet

\* Lines 489-505 of the parse of request u: the parser's lists are
\* replaced by new empty ones, the messages are found.
UploadBegin(u) ==
    /\ uploads.requests[u].pc = "received"
    /\ conversations' = <<>>
    /\ current_conversation' = <<>>
    /\ debug_data' = <<>>
    /\ uploads' = [alias |-> FALSE,
                   requests |-> [uploads.requests EXCEPT
                       ![u].pc = "loop",
                       ![u].messages = Messages(uploads.requests[u].chat_text)]]
    /\ ret' = [op |-> "upload_begin", request |-> u]
    /\ UNCHANGED <<inputVars, persona_analyzer, sheet_restaurants, da>>

\* The parser after the iteration whose result on the lists taken as
\* values is nx: when the last conversation of the list and
\* current_conversation are one list object (alias), a message appended to
\* the one is in the other.
UploadStepDone(u, l, nx, starts) ==
    /\ conversations' =
           IF uploads.alias /\ ~starts /\ ~nx.raised
           THEN [nx.conversations EXCEPT
                    ![Len(nx.conversations)] = nx.current_conversation]
           ELSE nx.conversations
    /\ current_conversation' = nx.current_conversation
    /\ debug_data' = nx.debug_data
    /\ uploads' = [alias |-> uploads.alias /\ (~starts \/ nx.raised),
                   requests |-> [uploads.requests EXCEPT
                       ![u].pc = IF nx.raised THEN "raised" ELSE "loop",
                       ![u].i = l.i + 1,
                       ![u].conversation_id = nx.conversation_id,
                       ![u].previous_sender = nx.previous_sender]]
    /\ ret' = [op |-> "upload_step", request |-> u]
    /\ UNCHANGED <<inputVars, persona_analyzer, sheet_restaurants, da>>

\* One iteration of the loop of lines 507-541 of request u, on the
\* parser's lists as they are now and on the locals of u.
UploadStepOn(u, l, m) ==
    UploadStepDone(u, l,
        ParseStep([conversations |-> conversations,
                   current_conversation |-> current_conversation,
                   debug_data |-> debug_data,
                   conversation_id |-> l.conversation_id,
                   previous_sender |-> l.previous_sender,
                   raised |-> FALSE], m, l.i),
        StartsConversation(m.sender, l.previous_sender, l.i))

UploadStep(u) ==
    /\ uploads.requests[u].pc = "loop"
    /\ uploads.requests[u].i < Len(uploads.requests[u].messages)
    /\ UploadStepOn(u, uploads.requests[u],
                    uploads.requests[u].messages[uploads.requests[u].i + 1])

\* Lines 544-552 of request u: the last conversation joins the list, the
\* personas are analysed, and the parser's list is returned (line 1039).
UploadEndOn(u, an) ==
    /\ conversations' = an.conversations
    /\ UNCHANGED <<current_conversation, debug_data>>
    /\ uploads' = [alias |-> uploads.alias \/ current_conversation # <<>>,
                   requests |-> [uploads.requests EXCEPT
                       ![u].pc = IF an.raised THEN "raised" ELSE "parsed",
                       ![u].conversations =
                           IF an.raised THEN <<>> ELSE an.conversations]]
    /\ ret' = [op |-> "upload_end", request |-> u]
    /\ UNCHANGED <<inputVars, persona_analyzer, sheet_restaurants, da>>

UploadEnd(u) ==
    /\ uploads.requests[u].pc = "loop"
    /\ uploads.requests[u].i = Len(uploads.requests[u].messages)
    /\ UploadEndOn(u,
           AnalyzePersonasOn(persona_analyzer, sheet_restaurants,
               IF current_conversation # <<>>
               THEN Append(conversations, current_conversation)
               ELSE conversations))

\* Line 1060 of request u: generate_metadata_network reads the parser's
\* debug_data (line 899) for the response.
UploadNetwork(u) ==
    /\ uploads.requests[u].pc = "parsed"
    /\ uploads' = [uploads EXCEPT !.requests[u].pc = "responded",
                                  !.requests[u].records = debug_data]
    /\ ret' = [op |-> "upload_network", request |-> u]
    /\ UNCHANGED <<inputVars, parserVars, da>>

NextUploads ==
    \E u \in Requests :
        UploadBegin(u) \/ UploadStep(u) \/ UploadEnd(u) \/ UploadNetwork(u)

SpecUploads == InitUploads /\ [][NextUploads]_vars

\* The messages and the debug records of the transcript of request u,
\* parsed alone.
OwnMessages(u) ==
    ToSet(Flatten(ParseConversations(uploads.requests[u].chat_text).conversations))

OwnRecords(u) ==
    {[debug_type |-> r.debug_type, data |-> r.data, timestamp |-> r.timestamp] :
        r \in ToSet(ParseConversations(uploads.requests[u].chat_text).debug_data)}

Responded(u) == uploads.requests[u].pc = "responded"

\* C13: under every interleaving of the two parse loops, the conversations
\* and the debug records returned for an upload hold only messages of that
\* upload's own transcript.
C13_UploadsDoNotMix ==
    \A u \in Requests :
        Responded(u) =>
            /\ \A m \in ToSet(Flatten(uploads.requests[u].conversations)) :
                  Identity(m) \in {Identity(o) : o \in OwnMessages(u)}
            /\ \A r \in ToSet(uploads.requests[u].records) :
                  [debug_type |-> r.debug_type, data |-> r.data,
                   timestamp |-> r.timestamp] \in OwnRecords(u)

-----------------------------------------------------------------------------
(* Specification SpecLoad: load_personas on persona tables                  *)

\* The most rows of a persona table.
MaxRows == 3

\* A row whose Input cell is empty: pandas reads NaN.
NoInputRow ==
    Row(Str("P3"), Str(<<"Vegan">>), NaN, <<Str(<<"Parigi">>), NaN, NaN>>)
\* Rows whose No. cell is empty, or a number.
NoIdRow ==
    Row(NaN, Str(<<"Nobody">>), Str(<<"late", "dinner">>), <<Str(<<"Osteria">>), NaN, NaN>>)
NumericIdRow ==
    Row(Num(7), Str(<<"Seven">>), Str(<<"brunch">>), <<Str(<<"Osteria">>), NaN, NaN>>)
\* A row with its three options, the second before the third.
ThreeOptionsRow ==
    Row(Str("P4"), Str(<<"Family">>), Str(<<"Pizza", "for", "kids">>),
        <<Str(<<"Trattoria", "Bella">>), Str(<<"Parigi">>), Str(<<"Osteria">>)>>)

TableRows ==
    {RomanticRow, NumberRow, NoInputRow, NoIdRow, NumericIdRow, ThreeOptionsRow}

InitLoad ==
    /\ chat_text = <<>>
    /\ csv \in SeqsUpTo(TableRows, MaxRows)
    /\ args = [file |-> NoFile]
    /\ FreshParser
    /\ da = NewDebugAnalyzer
    /\ uploads = NoUploads
    /\ ret = NoRet

NextLoad == LoadPersonas

SpecLoad == InitLoad /\ [][NextLoad]_vars

\* The identifier of the row is a string that is not empty.
ValidId(row) == IsStr(row.No) /\ row.No.v # ""

\* The rows with a valid identifier and an input phrase.
CompleteRows == SelectSeq(csv, LAMBDA row : ValidId(row) /\ IsStr(row.Input))

\* The personas loaded that have an input phrase.
LoadedComplete == SelectSeq(persona_analyzer.personas, LAMBDA p : IsStr(p.input))

Loaded == ret.op = "load_personas"

\* C15: load_personas loads in table order every row whose identifier is a
\* string that is not empty, with its at most three options in column
\* order, and no row with another identifier; a row without input phrase
\* is skipped or loaded without it, and the rows after it are loaded.
C15_LoadsEveryValidRow ==
    Loaded =>
        /\ \A i \in 1..Len(persona_analyzer.personas) :
              \E k \in 1..Len(csv) :
                  ValidId(csv[k]) /\ csv[k].No.v = persona_analyzer.personas[i].id
        /\ Len(LoadedComplete) = Len(CompleteRows)
        /\ \A i \in 1..Len(CompleteRows) :
              /\ LoadedComplete[i].id = CompleteRows[i].No.v
              /\ LoadedComplete[i].recommendations = RowOptions(CompleteRows[i])
              /\ Len(LoadedComplete[i].recommendations) <= 3
              /\ DictHas(persona_analyzer.persona_recommendations,
                         CompleteRows[i].No.v)

-----------------------------------------------------------------------------
(* Specification SpecClassify: _determine_message_type called on a content  *)
(* and a sender                                                             *)

\* The most phrases of a content.
MaxPhrases == 3

Phrases ==
    {<<DebugTag>>, PleaseWait, PorFavor, AudioOmitted, <<"Sushi">>,
     <<"please,", "wait">>, <<"wait">>}

InitClassify ==
    /\ chat_text = <<>>
    /\ csv = <<>>
    /\ \E phrases \in SeqsUpTo(Phrases, MaxPhrases), sender \in {Agent, Backend} :
          args = [content |-> Flatten(phrases), sender |-> sender]
    /\ FreshParser
    /\ da = NewDebugAnalyzer
    /\ uploads = NoUploads
    /\ ret = NoRet

\* parser._determine_message_type(content, sender)
Classify ==
    /\ ret.op = "none"
    /\ ret' = [op |-> "_determine_message_type",
               type |-> DetermineMessageType(args.content, args.sender)]
    /\ UNCHANGED <<inputVars, uploads, parserVars, da>>

NextClassify == Classify

SpecClassify == InitClassify /\ [][NextClassify]_vars

\* The words of the phrase stand in the content one after the other.
Holds(content, phrase) ==
    \E i \in 1..Len(content) :
        i + Len(phrase) - 1 <= Len(content)
        /\ SubSeq(content, i, i + Len(phrase) - 1) = phrase

AsksToWait == Holds(args.content, PleaseWait) \/ Holds(args.content, PorFavor)
StartsWithDebug == Len(args.content) > 0 /\ Head(args.content) = DebugTag
Classified == ret.op = "_determine_message_type"

\* C18: a message gets the type of the first rule that applies: the agent
\* as sender gives user_request, a please-wait phrase in the content gives
\* processing, the debug marker at its start gives debug, the audio-omitted
\* marker in it gives audio, and anything else is a recommendation.
C18_FirstRuleDecides ==
    Classified =>
        /\ ret.type \in {"user_request", "processing", "debug", "audio",
                         "recommendation"}
        /\ ret.type = "user_request" <=> args.sender = Agent
        /\ ret.type = "processing" <=> (args.sender # Agent /\ AsksToWait)
        /\ ret.type = "debug" <=>
              (args.sender # Agent /\ ~AsksToWait /\ StartsWithDebug)
        /\ ret.type = "audio" <=>
              (/\ args.sender # Agent /\ ~AsksToWait /\ ~StartsWithDebug
               /\ Holds(args.content, AudioOmitted))

\* A message of another sender that starts with the debug marker and asks
\* to wait: it is processing.
C18_Witness ==
    /\ Classified
    /\ args.sender # Agent /\ StartsWithDebug /\ AsksToWait
    /\ ret.type = "processing"

-----------------------------------------------------------------------------
(* Specification SpecMatch: persona tables with overlapping and shared      *)
(* input phrases, and the conversations matched against them                *)

\* The most rows of a persona table.
MaxMatchRows == 3

\* Every word of this phrase is in the romantic request.
ShortRow ==
    Row(Str("P5"), Str(<<"Gourmet">>), Str(<<"Romantic", "Italian", "place">>),
        <<Str(<<"Il", "Ristorante">>), NaN, NaN>>)
\* Another persona with the input phrase of ShortRow.
SharedRow ==
    Row(Str("P8"), Str(<<"Tourist">>), Str(<<"romantic", "italian", "place">>),
        <<Str(<<"Trattoria", "Bella">>), NaN, NaN>>)
SushiRow ==
    Row(Str("P7"), Str(<<"Student">>), Str(<<"cheap", "sushi">>),
        <<Str(<<"Parigi">>), NaN, NaN>>)

MatchRows == {RomanticRow, ShortRow, SharedRow, SushiRow}

\* A request that holds the words of the short phrase and four of the six
\* words of the romantic one.
PleaseLine ==
    HeaderLine(TsMorning, Agent, <<"A", "romantic", "Italian", "place", "please">>)

MatchTranscripts ==
    {<<RequestLine, OsteriaLine>>, <<PleaseLine, OsteriaLine>>,
     <<SushiLine, OsteriaLine>>, <<OsteriaLine>>}

InitMatch ==
    /\ chat_text \in MatchTranscripts
    /\ csv \in SeqsUpTo(MatchRows, MaxMatchRows)
    /\ args = [file |-> NoFile]
    /\ FreshParser
    /\ da = NewDebugAnalyzer
    /\ uploads = NoUploads
    /\ ret = NoRet

NextMatch == LoadPersonas \/ ParseWhatsappChat

SpecMatch == InitMatch /\ [][NextMatch]_vars

\* The user_request messages of the conversation, and the content of the
\* first of them.
Requesting(conversation) ==
    {k \in 1..Len(conversation) : conversation[k].type = "user_request"}

FirstRequest(conversation) == conversation[Least(Requesting(conversation))].content

\* The rows of the table whose phrase is the request, case aside, and those
\* with at least 70% of the words of their phrase in the request.
SamePhrase(request) ==
    {i \in 1..Len(persona_analyzer.personas) :
        Lower(persona_analyzer.personas[i].input.v) = Strip(Lower(request))}

SeventyPercent(request) ==
    {i \in 1..Len(persona_analyzer.personas) :
        LET words == ToSet(Split(Lower(persona_analyzer.personas[i].input.v)))
        IN  10 * Cardinality(words \cap ToSet(Split(Strip(Lower(request)))))
                >= 7 * Cardinality(words)}

Unmatched(conversation) ==
    \A k \in 1..Len(conversation) :
        /\ conversation[k].persona_id = Absent
        /\ conversation[k].recommendation_evaluation = Absent

MatchedTo(conversation, ids) ==
    \A k \in 1..Len(conversation) :
        \E i \in ids :
            conversation[k].persona_id = Str(persona_analyzer.personas[i].id)

\* C19: a conversation whose first user_request is a persona's input
\* phrase, case aside, gets that persona; otherwise it gets the first
\* persona in table order with at least 70% of the words of its phrase in
\* the request, also when several personas share a phrase; with no such
\* persona, or no user_request, it gets no persona id and no evaluation.
C19_ExactThenFirstFuzzy ==
    (Parsed /\ persona_analyzer # None) =>
        \A c \in 1..Len(conversations) :
            IF Requesting(conversations[c]) = {} THEN Unmatched(conversations[c])
            ELSE IF SamePhrase(FirstRequest(conversations[c])) # {}
            THEN MatchedTo(conversations[c], SamePhrase(FirstRequest(conversations[c])))
            ELSE IF SeventyPercent(FirstRequest(conversations[c])) # {}
            THEN MatchedTo(conversations[c],
                           {Least(SeventyPercent(FirstRequest(conversations[c])))})
            ELSE Unmatched(conversations[c])

-----------------------------------------------------------------------------
(* Specification SpecScore: evaluate_recommendations on expected lists      *)
(* with repeated and equivalent names and on actual lists of up to four     *)
(* names                                                                    *)

\* The option columns of the table.
MaxOptions == 3

OptionCells ==
    {Str(<<"Osteria", "Francescana">>), Str(<<"Francescana", "Osteria">>),
     Str(<<"Il", "Ristorante">>), Str(<<"Parigi">>), NaN}

ScoreRow(options) ==
    Row(Str("P1"), Str(<<"Couple">>),
        Str(<<"find", "me", "a", "romantic", "italian", "place">>), options)

TwoNamesLine ==
    HeaderLine(TsNoon, Backend,
        <<"-", "Il", "Ristorante", "-", "Osteria", "Francescana">>)
ThreeNamesLine ==
    HeaderLine(TsNoon, Backend,
        <<"-", "Parigi", "-", "Il", "Ristorante", "-", "Osteria", "Francescana">>)
FourNamesLine ==
    HeaderLine(TsNoon, Backend,
        <<"-", "Trattoria", "Bella", "-", "Bistrot", "Parigi",
          "-", "Il", "Ristorante", "-", "Francescana", "Osteria">>)

ScoreTranscripts ==
    {<<RequestLine>>, <<RequestLine, OsteriaLine>>, <<RequestLine, TwoNamesLine>>,
     <<RequestLine, ThreeNamesLine>>, <<RequestLine, FourNamesLine>>}

InitScore ==
    /\ chat_text \in ScoreTranscripts
    /\ csv \in {<<ScoreRow(o)>> : o \in [1..MaxOptions -> OptionCells]}
    /\ args = [file |-> NoFile]
    /\ FreshParser
    /\ da = NewDebugAnalyzer
    /\ uploads = NoUploads
    /\ ret = NoRet

NextScore == LoadPersonas \/ ParseWhatsappChat \/ Evaluate

SpecScore == InitScore /\ [][NextScore]_vars

\* The zero-based positions of the actual recommendations equivalent to
\* the expected one.
EquivalentAt(exp, actual) ==
    {j \in 0..(Len(actual) - 1) : IsSameRestaurant(exp.v, actual[j + 1])}

\* The entry of an expected recommendation of zero-based rank i, n being
\* the length of the expected list and at the positions equivalent to it.
EntryAsStated(entry, i, n, at) ==
    IF at = {}
    THEN ~entry.found /\ entry.position = -1 /\ entry.position_score = 0
    ELSE /\ entry.found
         /\ entry.position = Least(at)
         /\ Least(at) = i => entry.position_score = 100
         /\ (Least(at) # i /\ Least(at) < n) => entry.position_score = 67
         /\ (Least(at) # i /\ Least(at) >= n) => entry.position_score = 33

\* C21: for the expected recommendation of rank i the evaluator takes the
\* first actual recommendation equivalent to it and records found with
\* score 1.0 when its position is i, 0.67 when it is another position
\* below the length of the expected list, 0.33 when it is at or beyond
\* that length, and not found, position -1, score 0 when there is none;
\* there is one entry per expected recommendation, in expected order.
C21_PositionEntries ==
    (Returned /\ ret.result.matched) =>
        /\ Len(ret.result.position_analysis)
              = Len(ret.result.expected_recommendations)
        /\ \A i \in 1..Len(ret.result.expected_recommendations) :
              /\ ret.result.position_analysis[i].expected
                    = ret.result.expected_recommendations[i]
              /\ EntryAsStated(ret.result.position_analysis[i], i - 1,
                     Len(ret.result.expected_recommendations),
                     EquivalentAt(ret.result.expected_recommendations[i],
                                  ret.result.actual_recommendations))

\* An evaluation with an entry of each kind: scores 1.0, 0.67, 0.33 and 0
\* are all reached, the last two in one evaluation.
C21_Witness ==
    /\ Returned /\ ret.result.matched
    /\ \E i \in 1..Len(ret.result.position_analysis) :
          /\ ret.result.position_analysis[i].position_score = 33
          /\ ret.result.position_analysis[i].position
                >= Len(ret.result.expected_recommendations)
    /\ \E i \in 1..Len(ret.result.position_analysis) :
          ~ret.result.position_analysis[i].found

InUnit(r) == 0 <= r.num /\ r.num <= r.den

\* C27: the accuracy, precision and recall of every evaluation lie between
\* 0 and 1, also when the expected list repeats a name or holds names
\* equivalent to each other that match the same actual recommendation.
C27_RatiosInUnit ==
    Returned =>
        /\ InUnit(ret.result.accuracy)
        /\ InUnit(ret.result.recall)
        /\ InUnit(ret.result.precision)

-----------------------------------------------------------------------------
(* Specification SpecReload: transcripts uploaded one after the other, the  *)
(* DebugAnalyzer loaded and asked between them                              *)

\* The requests for one conversation's analysis ask for these ids.
MaxReloadId == 1

ReloadTranscripts ==
    {<<SushiLine, MetadataLine, OsteriaLine>>,
     <<RequestLine, TwoCuisinesLine, RistoranteLine>>,
     <<SushiLine, ThreePartLine, OsteriaLine>>,
     <<SushiLine, CandidatesLine>>,
     <<SushiLine, MetadataLine, OsteriaLine, RequestLine, CandidatesLine>>,
     <<RequestLine, MetadataLine, Feb30Line>>}

InitReload ==
    /\ chat_text = <<>>
    /\ csv = <<RomanticRow>>
    /\ args = [file |-> NoFile]
    /\ FreshParser
    /\ da = NewDebugAnalyzer
    /\ uploads = NoUploads
    /\ ret = NoRet

\* upload_chat (lines 1001-1064) on a text file: the personas are loaded
\* if there is no analyzer, the text is parsed; the calls after the parse
\* change nothing.
UploadChatDone(text, pa, st, an) ==
    /\ chat_text' = text
    /\ persona_analyzer' = pa
    /\ conversations' = IF st.raised THEN st.conversations ELSE an.conversations
    /\ current_conversation' =
           IF st.raised THEN st.current_conversation
           ELSE IF an.conversations = <<>> THEN <<>>
           ELSE Last(an.conversations)
    /\ debug_data' = st.debug_data
    /\ da' = [da EXCEPT !.aliased = FALSE]
    /\ ret' = [op |-> "upload_chat", raised |-> st.raised \/ an.raised]
    /\ UNCHANGED <<csv, args, uploads, sheet_restaurants>>

UploadChatParsed(text, pa, st) ==
    UploadChatDone(text, pa, st,
        AnalyzePersonasOn(pa, sheet_restaurants, st.conversations))

UploadChatOn(text, pa) == UploadChatParsed(text, pa, ParseConversations(text))

UploadChat ==
    \E text \in ReloadTranscripts :
        UploadChatOn(text, IF persona_analyzer = None
                           THEN LoadPersonasFromCsv(csv) ELSE persona_analyzer)

\* get_conversation_debug_analysis(conversation_id) (lines 1182-1195).
GetConversationDebugAnalysis ==
    /\ \E conversation_id \in 0..MaxReloadId :
          ret' = AnalyzeConversationDebug(da, conversation_id)
    /\ UNCHANGED <<inputVars, uploads, parserVars, da>>

NextReload == UploadChat \/ LoadConversations \/ GetConversationDebugAnalysis

SpecReload == InitReload /\ [][NextReload]_vars

\* C22: after load_conversations(C) the state of the DebugAnalyzer is the
\* state of a new instance loaded with C, whatever was loaded before:
\* debug records, both graphs, the three counters, the concepts of each
\* conversation and the category and concept maps to restaurants.
C22_LoadDependsOnInputAlone ==
    ret.op = "load_conversations" =>
        da = LoadConversationsInto(NewDebugAnalyzer, da.conversations)

\* The debug messages of a conversation that hold a decoded payload.
DebugOf(conversation) ==
    {i \in 1..Len(conversation) :
        conversation[i].type = "debug" /\ conversation[i].debug_info # Absent}

RequestOf(conversation) ==
    IF Requesting(conversation) = {} THEN None
    ELSE Str(FirstRequest(conversation))

\* C29: after any sequence of uploads and debug-analysis requests, the
\* analysis served for conversation id k describes conversation k of the
\* transcript parsed last: it holds that conversation's request and counts
\* that conversation's debug messages.
C29_AnalysisOfLatestTranscript ==
    (ret.op = "analyze_conversation_debug" /\ ret.outcome = "analysis") =>
        /\ ret.conversation_id < Len(conversations)
        /\ ret.request = RequestOf(conversations[ret.conversation_id + 1])
        /\ ret.debug_count
              = Cardinality(DebugOf(conversations[ret.conversation_id + 1]))

-----------------------------------------------------------------------------
(* Specification SpecGraph: conversations whose metadata and candidates     *)
(* recur, loaded into the DebugAnalyzer                                     *)

\* The most conversations of a transcript.
MaxGraphConversations == 2

\* the pairs of MetadataLine in the other order
MoodFirstLine ==
    HeaderLine(TsMorning, Backend,
        <<DebugTag, "Metadados", "relacionados",
          "[", "'Mood -> Romantic'", ",", "'Cuisine -> Italian'", "]">>)
\* a pair of MetadataLine with its names in the other roles
TurnedLine ==
    HeaderLine(TsMorning, Backend,
        <<DebugTag, "Metadados", "relacionados", "[", "'Italian -> Cuisine'", "]">>)
\* two restaurants of one category
LowerScoreLine ==
    HeaderLine(TsMorning, Backend,
        <<DebugTag, "Restaurantes", "candidatos:",
          "{", "'results'", ":", "{", "'Cuisine'", ":",
          "[", "'0.7 -> Osteria Francescana'", ",", "'0.5 -> Parigi'", "]", "}", "}">>)
\* one restaurant twice in one category, and in a second category
RepeatedLine ==
    HeaderLine(TsMorning, Backend,
        <<DebugTag, "Restaurantes", "candidatos:",
          "{", "'results'", ":", "{",
          "'Cuisine'", ":",
          "[", "'0.5 -> Osteria Francescana'", ",", "'0.9 -> Osteria Francescana'", "]",
          ",", "'Mood'", ":", "[", "'0.7 -> Osteria Francescana'", "]", "}", "}">>)

GraphMetadata ==
    {<<>>, <<MetadataLine>>, <<MoodFirstLine>>, <<TwoCuisinesLine>>,
     <<MetadataLine, TurnedLine>>}
GraphCandidates == {<<>>, <<CandidatesLine>>, <<LowerScoreLine>>, <<RepeatedLine>>}

GraphConversations ==
    {<<SushiLine>> \o m \o c : m \in GraphMetadata, c \in GraphCandidates}

InitGraph ==
    /\ chat_text \in {Flatten(t) :
                        t \in SeqsUpTo(GraphConversations, MaxGraphConversations)}
    /\ csv = <<>>
    /\ args = [file |-> NoFile]
    /\ FreshParser
    /\ da = NewDebugAnalyzer
    /\ uploads = NoUploads
    /\ ret = NoRet

\* debug_analyzer.analyze_concept_relationships() (lines 345-366).
ConceptRelationships ==
    /\ \E o \in SetOrders(da.conversation_concepts) :
          ret' = [op |-> "analyze_concept_relationships",
                  result |-> AnalyzeConceptRelationships(o)]
    /\ UNCHANGED <<inputVars, uploads, parserVars, da>>

NextGraph == ParseWhatsappChat \/ LoadConversations \/ ConceptRelationships

SpecGraph == InitGraph /\ [][NextGraph]_vars

\* The (category, value) entries of the metadata records, in the order of
\* the records, each with its names trimmed.
RecordPairs(record) ==
    IF record.type = "metadata"
    THEN [i \in 1..Len(record.data.items) |->
            <<Strip(record.data.items[i].parts[1]),
              Strip(record.data.items[i].parts[2])>>]
    ELSE <<>>

DecodedPairs ==
    Flatten([r \in 1..Len(da.debug_messages) |-> RecordPairs(da.debug_messages[r])])

Joining(g, u, v) ==
    {i \in 1..Len(g.edges) :
        \/ g.edges[i].u = u /\ g.edges[i].v = v
        \/ g.edges[i].u = v /\ g.edges[i].v = u}

LoadReturned == ret.op = "load_conversations" /\ ~ret.raised

\* C23: after loading, the concept graph has exactly one edge for each
\* (category, value) pair decoded from the metadata records, however often
\* the pair recurs, no other edge, and a node for every name seen, typed
\* category or concept after a role in which it was seen; the payload
\* ['Cuisine -> Italian', 'Mood -> Romantic'] alone gives two edges.
C23_OneEdgePerPair ==
    LoadReturned =>
        /\ \A p \in ToSet(DecodedPairs) :
              Cardinality(Joining(da.concept_network, p[1], p[2])) = 1
        /\ \A i \in 1..Len(da.concept_network.edges) :
              \E p \in ToSet(DecodedPairs) :
                  i \in Joining(da.concept_network, p[1], p[2])
        /\ \A p \in ToSet(DecodedPairs) :
              /\ DictHas(da.concept_network.nodes, p[1])
              /\ DictHas(da.concept_network.nodes, p[2])
        /\ \A n \in 1..Len(da.concept_network.nodes) :
              \/ /\ da.concept_network.nodes[n].v = "category"
                 /\ \E p \in ToSet(DecodedPairs) : p[1] = da.concept_network.nodes[n].k
              \/ /\ da.concept_network.nodes[n].v = "concept"
                 /\ \E p \in ToSet(DecodedPairs) : p[2] = da.concept_network.nodes[n].k
        /\ ToSet(DecodedPairs) = {<<<<"Cuisine">>, <<"Italian">>>>,
                                  <<<<"Mood">>, <<"Romantic">>>>}
              => Len(da.concept_network.edges) = 2

\* Two conversations with the payload ['Cuisine -> Italian',
\* 'Mood -> Romantic'], loaded: four entries, two edges.
C23_Witness ==
    /\ LoadReturned
    /\ Len(DecodedPairs) = 4
    /\ ToSet(DecodedPairs) = {<<<<"Cuisine">>, <<"Italian">>>>,
                              <<<<"Mood">>, <<"Romantic">>>>}
    /\ Len(da.concept_network.edges) = 2

\* The candidate entries of the records, in the order of the records:
\* category, restaurant and score in tenths.
CategoryEntries(e) ==
    [i \in 1..Len(e.v.items) |->
        [category |-> e.k[1], restaurant |-> e.v.items[i].parts[2],
         score |-> IF e.v.items[i].parts[1] = <<"0.9">> THEN 9
                   ELSE IF e.v.items[i].parts[1] = <<"0.7">> THEN 7
                   ELSE 5]]

ResultEntries(results) ==
    Flatten([c \in 1..Len(results) |-> CategoryEntries(results[c])])

RecordCandidates(record) ==
    IF record.type = "candidates"
    THEN ResultEntries(record.data.entries[1].v.entries)
    ELSE <<>>

CandidateEntries ==
    Flatten([r \in 1..Len(da.debug_messages) |->
                RecordCandidates(da.debug_messages[r])])

\* The last entry of a category and a restaurant.
LastEntry(entries, category, restaurant) ==
    entries[CHOOSE i \in 1..Len(entries) :
        /\ entries[i].category = category /\ entries[i].restaurant = restaurant
        /\ \A k \in (i + 1)..Len(entries) :
              ~(entries[k].category = category /\ entries[k].restaurant = restaurant)]

Occurrences(entries, restaurant) ==
    Cardinality({i \in 1..Len(entries) : entries[i].restaurant = restaurant})

\* C24: in the restaurant graph each (category, restaurant) pair of the
\* candidates payloads has one edge, weighted with the score of the last
\* entry of the pair in conversation order and then message order, while
\* the count of the restaurant is the number of its entries.
C24_LastScoreWins ==
    LoadReturned =>
        \A i \in 1..Len(CandidateEntries) :
            /\ Cardinality(Joining(da.restaurant_network,
                   CandidateEntries[i].category, CandidateEntries[i].restaurant)) = 1
            /\ \A e \in Joining(da.restaurant_network,
                   CandidateEntries[i].category, CandidateEntries[i].restaurant) :
                  da.restaurant_network.edges[e].weight
                      = LastEntry(CandidateEntries, CandidateEntries[i].category,
                                  CandidateEntries[i].restaurant).score
            /\ DictHas(da.restaurant_counts, CandidateEntries[i].restaurant)
            /\ DictGet(da.restaurant_counts, CandidateEntries[i].restaurant)
                  = Occurrences(CandidateEntries, CandidateEntries[i].restaurant)

\* A pair scored 0.9 in the first conversation and 0.7 in the second:
\* weight 0.7, count 2.
C24_Witness ==
    /\ LoadReturned
    /\ Len(CandidateEntries) = 3
    /\ CandidateEntries[1].score = 9 /\ CandidateEntries[2].score = 7
    /\ CandidateEntries[1].restaurant = CandidateEntries[2].restaurant
    /\ \E e \in 1..Len(da.restaurant_network.edges) :
          /\ da.restaurant_network.edges[e].v = CandidateEntries[1].restaurant
          /\ da.restaurant_network.edges[e].weight = 7
    /\ DictGet(da.restaurant_counts, CandidateEntries[1].restaurant) = 2

\* The conversations in which both labelled pairs occur.
WithBoth(a, b) ==
    {k \in 1..Len(da.conversation_concepts) :
        /\ \E p \in ToSet(da.conversation_concepts[k].v) : ConceptLabel(p) = a
        /\ \E p \in ToSet(da.conversation_concepts[k].v) : ConceptLabel(p) = b}

\* C25: the tally of two distinct (category, concept) pairs is the number
\* of conversations in which both occur, whatever their order and
\* multiplicity inside a conversation, and the two pairs have one tally,
\* not one for each order.
C25_OneTallyPerUnorderedPair ==
    ret.op = "analyze_concept_relationships" =>
        \A i \in 1..Len(ret.result) :
            /\ ret.result[i].v
                  = Cardinality(WithBoth(ret.result[i].k[1], ret.result[i].k[2]))
            /\ \A j \in 1..Len(ret.result) :
                  ret.result[j].k # <<ret.result[i].k[2], ret.result[i].k[1]>>

-----------------------------------------------------------------------------
(* Specification SpecRetable: persona tables loaded one after the other,    *)
(* the conversations analysed under each                                    *)

\* The most rows of a table.
MaxTableRows == 2

PlainSushiRow ==
    Row(Str("P3"), Str(<<"Student">>), Str(<<"sushi">>),
        <<Str(<<"Il", "Ristorante">>), NaN, NaN>>)

PersonaTables ==
    {t \in SeqsUpTo({RomanticRow, PlainSushiRow, ShortRow}, MaxTableRows) :
        \A i, j \in 1..Len(t) : i < j => t[i] # t[j]}

RetableTranscripts ==
    {<<RequestLine, OsteriaLine>>, <<SushiLine, RistoranteLine>>,
     <<RequestLine, OsteriaLine, SushiLine, RistoranteLine>>,
     <<PleaseLine, OsteriaLine>>}

InitRetable ==
    /\ chat_text \in RetableTranscripts
    /\ csv \in PersonaTables
    /\ args = [file |-> NoFile]
    /\ FreshParser
    /\ da = NewDebugAnalyzer
    /\ uploads = NoUploads
    /\ ret = NoRet

\* parser.load_personas(csv_path) (lines 481-484) on another table.
LoadTable ==
    /\ csv' \in PersonaTables
    /\ persona_analyzer' = LoadPersonasFromCsv(csv')
    /\ ret' = [op |-> "load_personas",
               result |-> persona_analyzer'.personas # <<>>]
    /\ UNCHANGED <<chat_text, args, uploads, sheet_restaurants, conversations,
                   current_conversation, debug_data, da>>

NextRetable == LoadTable \/ ParseWhatsappChat \/ AnalyzePersonas

SpecRetable == InitRetable /\ [][NextRetable]_vars

\* The conversation matches no persona of the table loaded now.
MatchesNone(conversation) ==
    \/ Requesting(conversation) = {}
    \/ /\ SamePhrase(FirstRequest(conversation)) = {}
       /\ SeventyPercent(FirstRequest(conversation)) = {}

\* C28: after analyze_personas returns, a conversation that matches no
\* persona of the table loaded at that moment carries no persona id and no
\* recommendation evaluation, also when an earlier run under another table
\* had matched it, and a conversation that matches carries a persona of
\* that table.
C28_AnnotationsFollowTable ==
    (ret.op = "analyze_personas" /\ ~ret.raised /\ persona_analyzer # None) =>
        \A c \in 1..Len(conversations) :
            IF MatchesNone(conversations[c]) THEN Unmatched(conversations[c])
            ELSE MatchedTo(conversations[c], 1..Len(persona_analyzer.personas))

=============================================================================
